---- MODULE Spec2Model ----
(***************************************************************************)
(* A model of the streaming parser of src/core/parse.c (JanetParser): the  *)
(* byte classifier, the per-frame consumers, the frame stack, and the      *)
(* public operations consume, eof, status, error, flush, produce, insert,  *)
(* has-more, where and clone.                                              *)
(*                                                                         *)
(* Bytes are their numeric codes 0..255.  A parser struct is a record of   *)
(* its scalar fields and of three pointers (args, states, buf) into a      *)
(* heap of blocks; the contents of a block is the sequence of its first    *)
(* `count` elements, so argcount, statecount and bufcount are the lengths. *)
(***************************************************************************)
EXTENDS Integers, Sequences, FiniteSets, TLC

VARIABLES
    parsers,    \* parser id -> JanetParser struct (scalars and pointers)
    heap,       \* block address -> contents of the block
    last,       \* the last call made: operation, parser, argument, result, panic
    tlq,        \* parser id -> top-level values closed and neither produced nor flushed (history)
    nfed,       \* number of bytes fed so far (bounds the exploration)
    nins,       \* number of insert calls so far (bounds the exploration)
    ncalls,     \* SpecClone: number of calls made after the clone (bounds the exploration)
    src,        \* scripted runs: the bytes still to be fed
    out,        \* scripted runs: the values returned by produce, in order
    comp,       \* the DstCompiler struct of the running dst_compile call
    cpc,        \* position of dst_compile: "idle", "value" (inside dstc_value), "done"
    cret,       \* the last compiler call made: operation, argument, returned slot or definition
    vm,         \* the thread-local VM state: symbol cache and symbol memory
    vmret,      \* the last symbol-cache call made: operation, argument, returned pointer
    threads     \* a child thread's mailbox, the parent's handle to it, and both threads' positions

gvars == <<vm, vmret, threads>>

\* What the parser's operations leave alone.
cvars == <<comp, cpc, cret, gvars>>

vars == <<parsers, heap, last, tlq, nfed, nins, ncalls, src, out, comp, cpc, cret, vm, vmret, threads>>

(***************************************************************************)
(* Bounds of the exploration.                                              *)
(***************************************************************************)
MaxBytes == 3
MaxInserts == 1
MaxCloneCalls == 2
MaxReaderBytes == 4
MaxDelimBytes == 4
MaxLongBytes == 7
MaxLineBytes == 5
MaxInsertBytes == 3

(***************************************************************************)
(* Byte codes, by character.                                               *)
(***************************************************************************)
Ascii ==
    [NUL |-> 0, TAB |-> 9, LF |-> 10, VT |-> 11, FF |-> 12, CR |-> 13,
     ESC |-> 27, SP |-> 32, DQ |-> 34, HASH |-> 35, QUOTE |-> 39, LPAREN |-> 40,
     RPAREN |-> 41, PLUS |-> 43, COMMA |-> 44, MINUS |-> 45, DOT |-> 46, c0 |-> 48,
     c1 |-> 49, c9 |-> 57, COLON |-> 58, SEMI |-> 59, AT |-> 64, A |-> 65,
     F |-> 70, LBRACKET |-> 91, BSL |-> 92, RBRACKET |-> 93, BACKTICK |-> 96, a |-> 97,
     b |-> 98, c |-> 99, d |-> 100, e |-> 101, f |-> 102, h |-> 104, i |-> 105,
     l |-> 108, n |-> 110, o |-> 111, p |-> 112, q |-> 113, r |-> 114, s |-> 115,
     t |-> 116, u |-> 117, v |-> 118, x |-> 120, z |-> 122, LBRACE |-> 123,
     PIPE |-> 124, RBRACE |-> 125, TILDE |-> 126, DEL |-> 127]

Ch(s) == Ascii[s]

\* The bytes of a C string literal used by the parser, as codes.
CStr(name) ==
    CASE name = "quote" -> <<113, 117, 111, 116, 101>>
      [] name = "unquote" -> <<117, 110, 113, 117, 111, 116, 101>>
      [] name = "splice" -> <<115, 112, 108, 105, 99, 101>>
      [] name = "short-fn" -> <<115, 104, 111, 114, 116, 45, 102, 110>>
      [] name = "quasiquote" -> <<113, 117, 97, 115, 105, 113, 117, 111, 116, 101>>
      [] name = "<unknown>" -> <<60, 117, 110, 107, 110, 111, 119, 110, 62>>
      [] name = "nil" -> <<110, 105, 108>>
      [] name = "false" -> <<102, 97, 108, 115, 101>>
      [] name = "true" -> <<116, 114, 117, 101>>

(***************************************************************************)
(* Janet values, as the parser builds them.                                *)
(***************************************************************************)
NilV == [t |-> "nil"]
BoolV(b) == [t |-> "boolean", b |-> b]
NumV(n) == [t |-> "number", n |-> n]
StringV(bytes) == [t |-> "string", bytes |-> bytes]
BufferV(bytes) == [t |-> "buffer", bytes |-> bytes]
SymbolV(bytes) == [t |-> "symbol", bytes |-> bytes]
KeywordV(bytes) == [t |-> "keyword", bytes |-> bytes]
\* janet_tuple_begin: a fresh tuple carries no source position (-1, -1).
TupleV(items, bracket) ==
    [t |-> "tuple", items |-> items, bracket |-> bracket, line |-> -1, column |-> -1]
ArrayV(items) == [t |-> "array", items |-> items]
StructV(kvs) == [t |-> "struct", kvs |-> kvs]
TableV(kvs) == [t |-> "table", kvs |-> kvs]

NoError == "NULL"

(***************************************************************************)
(* Character classifier.                                                   *)
(***************************************************************************)
is_whitespace(c) ==
    \/ c = Ch("SP")
    \/ c = Ch("TAB")
    \/ c = Ch("LF")
    \/ c = Ch("CR")
    \/ c = Ch("NUL")
    \/ c = Ch("VT")
    \/ c = Ch("FF")

\* The table with the bits of "\", "|" and "~" set (0xd7ffffff, 0x57fffffe).
symchars_withbackslash ==
    << <<0, 0>>, <<63487, 60530>>, <<55295, 65535>>, <<22527, 65534>>,
       <<65535, 65535>>, <<65535, 65535>>, <<65535, 65535>>, <<65535, 65535>> >>

\* The 256-bit table, each 32-bit word as <<high 16 bits, low 16 bits>>.
symchars ==
    << <<0, 0>>, <<63487, 60530>>, <<51199, 65535>>, <<2047, 65534>>,
       <<65535, 65535>>, <<65535, 65535>>, <<65535, 65535>>, <<65535, 65535>> >>

Pow2(n) == IF n = 0 THEN 1 ELSE 2 ^ n

is_symbol_char(c) ==
    LET word == symchars[(c \div 32) + 1]
        bit == c % 32
        half == IF bit < 16 THEN word[2] ELSE word[1]
        pos == IF bit < 16 THEN bit ELSE bit - 16
    IN  (half \div Pow2(pos)) % 2 = 1

RECURSIVE valid_utf8_from(_, _)
valid_utf8_from(str, i) ==
    \* i is the 0-based index of the C loop; str[i + 1] is the byte at it
    IF i >= Len(str) THEN TRUE
    ELSE
        LET c == str[i + 1]
            nexti == IF c < 128 THEN i + 1
                     ELSE IF c \div 32 = 6 THEN i + 2
                     ELSE IF c \div 16 = 14 THEN i + 3
                     ELSE IF c \div 8 = 30 THEN i + 4
                     ELSE -1
        IN  IF nexti = -1 THEN FALSE
            ELSE IF nexti > Len(str) THEN FALSE
            ELSE IF \E j \in (i + 1)..(nexti - 1) : str[j + 1] \div 64 # 2 THEN FALSE
            ELSE IF nexti = i + 2 /\ c < 194 THEN FALSE
            ELSE IF c = 224 /\ str[i + 2] < 160 THEN FALSE
            ELSE IF c = 240 /\ str[i + 2] < 144 THEN FALSE
            ELSE valid_utf8_from(str, nexti)

valid_utf8(str) == valid_utf8_from(str, 0)

to_hex(c) ==
    IF c >= Ch("c0") /\ c <= Ch("c9") THEN c - Ch("c0")
    ELSE IF c >= Ch("A") /\ c <= Ch("F") THEN 10 + c - Ch("A")
    ELSE IF c >= Ch("a") /\ c <= Ch("f") THEN 10 + c - Ch("a")
    ELSE -1

(***************************************************************************)
(* Parse state frames and the three stacks of the parser.                  *)
(*                                                                         *)
(* The operators below act on a parser value P: the struct with its three  *)
(* blocks read through their pointers (see Load and Store).  P.emit is a   *)
(* history field: the top-level values completed during the current call.  *)
(***************************************************************************)
\* The PFLAG_ bits are the members of the set `flags`; the low byte of the C
\* flags word (the reader-macro character) is the field `mac`.
Frame(consumer, flags, mac, line, column) ==
    [counter |-> 0, argn |-> 0, flags |-> flags, mac |-> mac,
     line |-> line, column |-> column, consumer |-> consumer]

statecount(P) == Len(P.states)
argcount(P) == Len(P.args)
bufcount(P) == Len(P.buf)
TopState(P) == P.states[Len(P.states)]
SetTop(P, f) == [P EXCEPT !.states[Len(P.states)] = f]

push_buf(P, x) == [P EXCEPT !.buf = Append(@, x)]
push_arg(P, x) == [P EXCEPT !.args = Append(@, x)]

pushstate(P, consumer, flags, mac) ==
    [P EXCEPT !.states = Append(@, Frame(consumer, flags, mac, P.line, P.column))]

\* The names of ',' and ';' exchanged.
ReaderMacName_swapped(c) ==
    IF c = Ch("QUOTE") THEN "quote"
    ELSE IF c = Ch("COMMA") THEN "splice"
    ELSE IF c = Ch("SEMI") THEN "unquote"
    ELSE IF c = Ch("PIPE") THEN "short-fn"
    ELSE IF c = Ch("TILDE") THEN "quasiquote"
    ELSE "<unknown>"

ReaderMacName(c) ==
    IF c = Ch("QUOTE") THEN "quote"
    ELSE IF c = Ch("COMMA") THEN "unquote"
    ELSE IF c = Ch("SEMI") THEN "splice"
    ELSE IF c = Ch("PIPE") THEN "short-fn"
    ELSE IF c = Ch("TILDE") THEN "quasiquote"
    ELSE "<unknown>"

\* The 2-tuple (name val) built for a reader-macro frame, stamped with the
\* position of the macro character.
ReaderMacWrap(frame, val) ==
    [TupleV(<<SymbolV(CStr(ReaderMacName(frame.mac))), val>>, FALSE)
        EXCEPT !.line = frame.line, !.column = frame.column]

\* popstate counting every delivered value as a top-level one.
RECURSIVE popstate_anypending(_, _)
popstate_anypending(P, val) ==
    LET n == Len(P.states)
        top == P.states[n]
        below == SubSeq(P.states, 1, n - 1)
        newtop == below[n - 1]
    IN  IF "CONTAINER" \in newtop.flags
        THEN LET v == IF val.t = "tuple"
                      THEN [val EXCEPT !.line = top.line, !.column = top.column]
                      ELSE val
             IN  [P EXCEPT !.states = [below EXCEPT ![n - 1].argn = @ + 1],
                           !.pending = @ + 1,
                           !.emit = IF n - 1 = 1 THEN Append(@, v) ELSE @,
                           !.args = Append(@, v)]
        ELSE IF "READERMAC" \in newtop.flags
        THEN popstate_anypending([P EXCEPT !.states = below], ReaderMacWrap(newtop, val))
        ELSE [P EXCEPT !.states = below]

RECURSIVE popstate(_, _)
popstate(P, val) ==
    LET n == Len(P.states)
        top == P.states[n]
        below == SubSeq(P.states, 1, n - 1)
        newtop == below[n - 1]
    IN  IF "CONTAINER" \in newtop.flags
        THEN LET v == IF val.t = "tuple"
                      THEN [val EXCEPT !.line = top.line, !.column = top.column]
                      ELSE val
             IN  [P EXCEPT !.states = [below EXCEPT ![n - 1].argn = @ + 1],
                           !.pending = IF n - 1 = 1 THEN @ + 1 ELSE @,
                           !.emit = IF n - 1 = 1 THEN Append(@, v) ELSE @,
                           !.args = Append(@, v)]
        ELSE IF "READERMAC" \in newtop.flags
        THEN popstate([P EXCEPT !.states = below], ReaderMacWrap(newtop, val))
        ELSE [P EXCEPT !.states = below]

\* What a consumer returns: the parser after it, and whether the byte was consumed.
Ret(P, consumed) == [p |-> P, consumed |-> consumed]

checkescape(c) ==
    IF c = Ch("x") THEN 1
    ELSE IF c = Ch("n") THEN Ch("LF")
    ELSE IF c = Ch("t") THEN Ch("TAB")
    ELSE IF c = Ch("r") THEN Ch("CR")
    ELSE IF c = Ch("c0") THEN Ch("NUL")
    ELSE IF c = Ch("z") THEN Ch("NUL")
    ELSE IF c = Ch("f") THEN Ch("FF")
    ELSE IF c = Ch("v") THEN Ch("VT")
    ELSE IF c = Ch("e") THEN Ch("ESC")
    ELSE IF c = Ch("DQ") THEN Ch("DQ")
    ELSE IF c = Ch("BSL") THEN Ch("BSL")
    ELSE -1

escapeh(P, c) ==
    LET state == TopState(P)
        digit == to_hex(c)
        argn == ((state.argn * 16) + digit)
        counter == state.counter - 1
    IN  IF digit < 0
        THEN Ret([P EXCEPT !.error = "invalid hex digit in hex escape"], 1)
        ELSE IF counter = 0
        THEN Ret(SetTop(push_buf(P, argn % 256),
                        [state EXCEPT !.argn = 0, !.counter = counter,
                                      !.consumer = "stringchar"]), 1)
        ELSE Ret(SetTop(P, [state EXCEPT !.argn = argn, !.counter = counter]), 1)

escape1(P, c) ==
    LET state == TopState(P)
        e == checkescape(c)
    IN  IF e < 0
        THEN Ret([P EXCEPT !.error = "invalid string escape sequence"], 1)
        ELSE IF c = Ch("x")
        THEN Ret(SetTop(P, [state EXCEPT !.counter = 2, !.argn = 0,
                                         !.consumer = "escapeh"]), 1)
        ELSE Ret(SetTop(push_buf(P, e), [state EXCEPT !.consumer = "stringchar"]), 1)

\* The string or buffer made of the byte buffer; a long string loses one LF
\* right after the opening fence and one right before the closing fence.
stringend(P) ==
    LET state == TopState(P)
        long == "LONGSTRING" \in state.flags
        lead == long /\ Len(P.buf) > 0 /\ P.buf[1] = Ch("LF")
        b1 == IF lead THEN Tail(P.buf) ELSE P.buf
        trail == long /\ Len(b1) > 0 /\ b1[Len(b1)] = Ch("LF")
        b2 == IF trail THEN SubSeq(b1, 1, Len(b1) - 1) ELSE b1
        ret == IF "BUFFER" \in state.flags THEN BufferV(b2) ELSE StringV(b2)
    IN  Ret(popstate([P EXCEPT !.buf = <<>>], ret), 1)

stringchar(P, c) ==
    LET state == TopState(P)
    IN  IF c = Ch("BSL")
        THEN Ret(SetTop(P, [state EXCEPT !.consumer = "escape1"]), 1)
        ELSE IF c = Ch("DQ")
        THEN stringend(P)
        ELSE IF c # Ch("LF") /\ c # Ch("CR")
        THEN Ret(push_buf(P, c), 1)
        ELSE Ret(P, 1)

RECURSIVE check_str_const_from(_, _, _)
check_str_const_from(cstr, str, index) ==
    \* k is cstr[index]; the C string ends with a NUL
    LET k == IF index < Len(cstr) THEN cstr[index + 1] ELSE 0
    IN  IF index >= Len(str)
        THEN (IF k = 0 THEN 0 ELSE -1)
        ELSE LET c == str[index + 1]
             IN  IF c < k THEN -1
                 ELSE IF c > k THEN 1
                 ELSE IF k = 0 THEN 0
                 ELSE check_str_const_from(cstr, str, index + 1)

check_str_const(cstr, str) == check_str_const_from(cstr, str, 0)

IsDigit(c) == c >= Ch("c0") /\ c <= Ch("c9")

RECURSIVE DecValue(_)
DecValue(digits) ==
    IF digits = <<>> THEN 0
    ELSE 10 * DecValue(SubSeq(digits, 1, Len(digits) - 1)) + (digits[Len(digits)] - Ch("c0"))

\* The number scanner, for optionally signed decimal integers: ok is FALSE when
\* the bytes are no such number.
janet_scan_number(str) ==
    LET signed == Len(str) > 0 /\ str[1] \in {Ch("MINUS"), Ch("PLUS")}
        digits == IF signed THEN Tail(str) ELSE str
        ok == Len(digits) > 0 /\ \A i \in 1..Len(digits) : IsDigit(digits[i])
    IN  [ok |-> ok,
         val |-> IF ~ok THEN 0
                 ELSE IF signed /\ str[1] = Ch("MINUS") THEN 0 - DecValue(digits)
                 ELSE DecValue(digits)]

tokenchar(P, c) ==
    LET state == TopState(P)
        buf == P.buf
        start_dig == IsDigit(buf[1])
        start_num == start_dig \/ buf[1] = Ch("MINUS") \/ buf[1] = Ch("PLUS")
                        \/ buf[1] = Ch("DOT")
        scan == janet_scan_number(buf)
        done(ret) == Ret(popstate([P EXCEPT !.buf = <<>>], ret), 0)
    IN  IF is_symbol_char(c)
        THEN Ret(SetTop(push_buf(P, c),
                        [state EXCEPT !.argn = IF c > 127 THEN 1 ELSE @]), 1)
        ELSE IF buf[1] = Ch("COLON")
        THEN IF state.argn = 0 \/ valid_utf8(Tail(buf))
             THEN done(KeywordV(Tail(buf)))
             ELSE Ret([P EXCEPT !.error = "invalid utf-8 in keyword"], 0)
        ELSE IF start_num /\ scan.ok
        THEN done(NumV(scan.val))
        ELSE IF check_str_const(CStr("nil"), buf) = 0
        THEN done(NilV)
        ELSE IF check_str_const(CStr("false"), buf) = 0
        THEN done(BoolV(FALSE))
        ELSE IF check_str_const(CStr("true"), buf) = 0
        THEN done(BoolV(TRUE))
        ELSE IF start_dig
        THEN Ret([P EXCEPT !.error = "symbol literal cannot start with a digit"], 0)
        ELSE IF state.argn = 0 \/ valid_utf8(buf)
        THEN done(SymbolV(buf))
        ELSE Ret([P EXCEPT !.error = "invalid utf-8 in symbol"], 0)

comment(P, c) ==
    IF c = Ch("LF")
    THEN Ret([P EXCEPT !.states = SubSeq(@, 1, Len(@) - 1), !.buf = <<>>], 1)
    ELSE Ret(push_buf(P, c), 1)

\* The last argn values of the argument stack, in order, and the stack without them.
TakeArgs(P, argn) == SubSeq(P.args, Len(P.args) - argn + 1, Len(P.args))
DropArgs(P, argn) == [P EXCEPT !.args = SubSeq(@, 1, Len(@) - argn)]

close_tuple(P, flag) == TupleV(TakeArgs(P, TopState(P).argn), flag)
close_array(P) == ArrayV(TakeArgs(P, TopState(P).argn))
close_struct(P) == StructV(TakeArgs(P, TopState(P).argn))
close_table(P) == TableV(TakeArgs(P, TopState(P).argn))

\* longstring dropping the backticks of a failed end candidate.
longstring_dropticks(P, c) ==
    LET state == TopState(P)
    IN  IF "INSTRING" \in state.flags
        THEN IF c = Ch("BACKTICK")
             THEN Ret(SetTop(P, [state EXCEPT
                                   !.flags = (@ \cup {"END_CANDIDATE"}) \ {"INSTRING"},
                                   !.counter = 1]), 1)
             ELSE Ret(push_buf(P, c), 1)
        ELSE IF "END_CANDIDATE" \in state.flags
        THEN IF state.counter = state.argn
             THEN Ret(stringend(P).p, 0)
             ELSE IF c = Ch("BACKTICK") /\ state.counter < state.argn
             THEN Ret(SetTop(P, [state EXCEPT !.counter = @ + 1]), 1)
             ELSE Ret(SetTop(push_buf(P, c),
                             [state EXCEPT
                                !.counter = 0,
                                !.flags = (@ \ {"END_CANDIDATE"}) \cup {"INSTRING"}]), 1)
        ELSE IF c # Ch("BACKTICK")
        THEN Ret(SetTop(push_buf(P, c),
                        [state EXCEPT !.argn = @ + 1, !.flags = @ \cup {"INSTRING"}]), 1)
        ELSE Ret(SetTop(P, [state EXCEPT !.argn = @ + 1]), 1)

longstring(P, c) ==
    LET state == TopState(P)
    IN  IF "INSTRING" \in state.flags
        THEN IF c = Ch("BACKTICK")
             THEN Ret(SetTop(P, [state EXCEPT
                                   !.flags = (@ \cup {"END_CANDIDATE"}) \ {"INSTRING"},
                                   !.counter = 1]), 1)
             ELSE Ret(push_buf(P, c), 1)
        ELSE IF "END_CANDIDATE" \in state.flags
        THEN IF state.counter = state.argn
             THEN Ret(stringend(P).p, 0)
             ELSE IF c = Ch("BACKTICK") /\ state.counter < state.argn
             THEN Ret(SetTop(P, [state EXCEPT !.counter = @ + 1]), 1)
             ELSE Ret(SetTop([P EXCEPT !.buf = @ \o [i \in 1..state.counter |-> Ch("BACKTICK")]
                                                 \o <<c>>],
                             [state EXCEPT
                                !.counter = 0,
                                !.flags = (@ \ {"END_CANDIDATE"}) \cup {"INSTRING"}]), 1)
        ELSE IF c # Ch("BACKTICK")
        THEN Ret(SetTop(push_buf(P, c),
                        [state EXCEPT !.argn = @ + 1, !.flags = @ \cup {"INSTRING"}]), 1)
        ELSE Ret(SetTop(P, [state EXCEPT !.argn = @ + 1]), 1)

atsign(P, c) ==
    LET Q == [P EXCEPT !.states = SubSeq(@, 1, Len(@) - 1)]
    IN  IF c = Ch("LBRACE")
        THEN Ret(pushstate(Q, "root", {"CONTAINER", "CURLYBRACKETS", "ATSYM"}, 0), 1)
        ELSE IF c = Ch("DQ")
        THEN Ret(pushstate(Q, "stringchar", {"BUFFER", "STRING"}, 0), 1)
        ELSE IF c = Ch("BACKTICK")
        THEN Ret(pushstate(Q, "longstring", {"BUFFER", "LONGSTRING"}, 0), 1)
        ELSE IF c = Ch("LBRACKET")
        THEN Ret(pushstate(Q, "root", {"CONTAINER", "SQRBRACKETS", "ATSYM"}, 0), 1)
        ELSE IF c = Ch("LPAREN")
        THEN Ret(pushstate(Q, "root", {"CONTAINER", "PARENS", "ATSYM"}, 0), 1)
        ELSE Ret(push_buf(pushstate(Q, "tokenchar", {"TOKEN"}, 0), Ch("AT")), 0)

\* The reader-macro test of a parser to which ',' and ';' mean nothing.
IsReaderMacChar_nounquote(c) ==
    c \in {Ch("QUOTE"), Ch("TILDE"), Ch("PIPE")}

IsReaderMacChar(c) ==
    c \in {Ch("QUOTE"), Ch("COMMA"), Ch("SEMI"), Ch("TILDE"), Ch("PIPE")}

IsCloser(c) == c \in {Ch("RPAREN"), Ch("RBRACKET"), Ch("RBRACE")}

\* root closing a frame without looking at the kind of the delimiter.
root_close_anycloser(P, c) ==
    LET state == TopState(P)
        popped(ds) == Ret(popstate(DropArgs(P, state.argn), ds), 1)
    IN  IF statecount(P) = 1
        THEN Ret([P EXCEPT !.error = "unexpected delimiter"], 1)
        ELSE IF "ATSYM" \in state.flags
        THEN popped(close_array(P))
        ELSE popped(close_tuple(P, c = Ch("RBRACKET")))

\* The closing-delimiter case of root.
root_close(P, c) ==
    LET state == TopState(P)
        popped(ds) == Ret(popstate(DropArgs(P, state.argn), ds), 1)
    IN  IF statecount(P) = 1
        THEN Ret([P EXCEPT !.error = "unexpected delimiter"], 1)
        ELSE IF \/ (c = Ch("RPAREN") /\ "PARENS" \in state.flags)
                \/ (c = Ch("RBRACKET") /\ "SQRBRACKETS" \in state.flags)
        THEN IF "ATSYM" \in state.flags
             THEN popped(close_array(P))
             ELSE popped(close_tuple(P, c = Ch("RBRACKET")))
        ELSE IF c = Ch("RBRACE") /\ "CURLYBRACKETS" \in state.flags
        THEN IF state.argn % 2 = 1
             THEN Ret([P EXCEPT !.error =
                          "struct and table literals expect even number of arguments"], 1)
             ELSE IF "ATSYM" \in state.flags
             THEN popped(close_table(P))
             ELSE popped(close_struct(P))
        ELSE Ret([P EXCEPT !.error = "mismatched delimiter"], 1)

root(P, c) ==
    IF IsReaderMacChar(c) THEN Ret(pushstate(P, "root", {"READERMAC"}, c), 1)
    ELSE IF c = Ch("DQ") THEN Ret(pushstate(P, "stringchar", {"STRING"}, 0), 1)
    ELSE IF c = Ch("HASH") THEN Ret(pushstate(P, "comment", {"COMMENT"}, 0), 1)
    ELSE IF c = Ch("AT") THEN Ret(pushstate(P, "atsign", {"ATSYM"}, 0), 1)
    ELSE IF c = Ch("BACKTICK") THEN Ret(pushstate(P, "longstring", {"LONGSTRING"}, 0), 1)
    ELSE IF IsCloser(c) THEN root_close(P, c)
    ELSE IF c = Ch("LPAREN") THEN Ret(pushstate(P, "root", {"CONTAINER", "PARENS"}, 0), 1)
    ELSE IF c = Ch("LBRACKET")
    THEN Ret(pushstate(P, "root", {"CONTAINER", "SQRBRACKETS"}, 0), 1)
    ELSE IF c = Ch("LBRACE")
    THEN Ret(pushstate(P, "root", {"CONTAINER", "CURLYBRACKETS"}, 0), 1)
    ELSE IF is_whitespace(c) THEN Ret(P, 1)
    ELSE IF ~is_symbol_char(c) THEN Ret([P EXCEPT !.error = "unexpected character"], 1)
    ELSE Ret(pushstate(P, "tokenchar", {"TOKEN"}, 0), 0)

\* state->consumer(parser, state, c)
Dispatch(P, c) ==
    LET k == TopState(P).consumer
    IN  CASE k = "root" -> root(P, c)
          [] k = "tokenchar" -> tokenchar(P, c)
          [] k = "stringchar" -> stringchar(P, c)
          [] k = "escape1" -> escape1(P, c)
          [] k = "escapeh" -> escapeh(P, c)
          [] k = "comment" -> comment(P, c)
          [] k = "longstring" -> longstring(P, c)
          [] k = "atsign" -> atsign(P, c)

\* while (!consumed && !parser->error) ...
RECURSIVE ConsumeLoop(_, _)
ConsumeLoop(P, c) ==
    IF P.error # NoError THEN P
    ELSE LET r == Dispatch(P, c)
         IN  IF r.consumed # 0 THEN r.p ELSE ConsumeLoop(r.p, c)

(***************************************************************************)
(* Public API.  A call that panics changes nothing: Panic names the        *)
(* message, "" when the call goes through.                                 *)
(***************************************************************************)
\* checkdead without the check for an unchecked error.
janet_parser_checkdead_deadonly(P) ==
    IF P.flag # 0 THEN "parser is dead, cannot consume" ELSE ""

janet_parser_checkdead(P) ==
    IF P.flag # 0 THEN "parser is dead, cannot consume"
    ELSE IF P.error # NoError THEN "parser has unchecked error, cannot consume"
    ELSE ""

\* Line counting that takes every LF for a new line.
Advance_everylf(P, c) ==
    IF c = Ch("CR") THEN [P EXCEPT !.line = @ + 1, !.column = 0]
    ELSE IF c = Ch("LF") THEN [P EXCEPT !.column = 0, !.line = @ + 1]
    ELSE [P EXCEPT !.column = @ + 1]

\* The line and column after byte c.
Advance(P, c) ==
    IF c = Ch("CR") THEN [P EXCEPT !.line = @ + 1, !.column = 0]
    ELSE IF c = Ch("LF")
    THEN [P EXCEPT !.column = 0, !.line = IF P.lookback # Ch("CR") THEN @ + 1 ELSE @]
    ELSE [P EXCEPT !.column = @ + 1]

janet_parser_consume(P, c) ==
    IF janet_parser_checkdead(P) # "" THEN P
    ELSE [ConsumeLoop(Advance(P, c), c) EXCEPT !.lookback = c]

\* eof that forgets to mark the parser dead.
janet_parser_eof_noflag(P) ==
    IF janet_parser_checkdead(P) # "" THEN P
    ELSE LET Q == janet_parser_consume(P, Ch("LF"))
         IN  [Q EXCEPT !.error = IF statecount(Q) > 1 THEN "unexpected end of source" ELSE @,
                       !.line = P.line,
                       !.column = P.column]

\* eof that counts the root frame as an open form.
janet_parser_eof_anyframe(P) ==
    IF janet_parser_checkdead(P) # "" THEN P
    ELSE LET Q == janet_parser_consume(P, Ch("LF"))
         IN  [Q EXCEPT !.error = IF statecount(Q) > 0 THEN "unexpected end of source" ELSE @,
                       !.line = P.line,
                       !.column = P.column,
                       !.flag = 1]

\* eof that leaves line and column where the synthetic LF put them.
janet_parser_eof_norestore(P) ==
    IF janet_parser_checkdead(P) # "" THEN P
    ELSE LET Q == janet_parser_consume(P, Ch("LF"))
         IN  [Q EXCEPT !.error = IF statecount(Q) > 1 THEN "unexpected end of source" ELSE @,
                       !.flag = 1]

\* eof that keeps an error the synthetic LF has raised.
janet_parser_eof_keeperror(P) ==
    IF janet_parser_checkdead(P) # "" THEN P
    ELSE LET Q == janet_parser_consume(P, Ch("LF"))
         IN  [Q EXCEPT !.error = IF statecount(Q) > 1 /\ Q.error = NoError
                                  THEN "unexpected end of source" ELSE @,
                       !.line = P.line,
                       !.column = P.column,
                       !.flag = 1]

janet_parser_eof(P) ==
    IF janet_parser_checkdead(P) # "" THEN P
    ELSE LET Q == janet_parser_consume(P, Ch("LF"))
         IN  [Q EXCEPT !.error = IF statecount(Q) > 1 THEN "unexpected end of source" ELSE @,
                       !.line = P.line,
                       !.column = P.column,
                       !.flag = 1]

janet_parser_status(P) ==
    IF P.error # NoError THEN "error"
    ELSE IF P.flag # 0 THEN "dead"
    ELSE IF statecount(P) > 1 THEN "pending"
    ELSE "root"

\* flush that leaves the argument stack alone.
janet_parser_flush_keepargs(P) ==
    [P EXCEPT !.states = SubSeq(@, 1, 1), !.buf = <<>>, !.pending = 0]

janet_parser_flush(P) ==
    [P EXCEPT !.args = <<>>, !.states = SubSeq(@, 1, 1), !.buf = <<>>, !.pending = 0]

\* The parser after error(); the message returned is janet_parser_error_ret.
janet_parser_error(P) ==
    IF janet_parser_status(P) = "error"
    THEN janet_parser_flush([P EXCEPT !.error = NoError])
    ELSE P

janet_parser_error_ret(P) ==
    IF janet_parser_status(P) = "error" THEN P.error ELSE NoError

\* produce that takes the value and leaves it on the argument stack.
janet_parser_produce_nopop(P) ==
    IF P.pending = 0 THEN P
    ELSE [P EXCEPT !.pending = @ - 1]

\* The parser after produce(); the value returned is janet_parser_produce_ret.
janet_parser_produce(P) ==
    IF P.pending = 0 THEN P
    ELSE [P EXCEPT !.args = Tail(@), !.pending = @ - 1]

\* produce returning the newest value instead of the oldest.
janet_parser_produce_ret_newest(P) ==
    IF P.pending = 0 THEN NilV ELSE P.args[Len(P.args)]

janet_parser_produce_ret(P) ==
    IF P.pending = 0 THEN NilV ELSE P.args[1]

janet_parser_has_more(P) == P.pending # 0

cfun_parse_where(P) == <<P.line, P.column>>

\* The bytes janet_to_string gives for a string, buffer, symbol or keyword.
janet_to_string(v) == v.bytes

\* insert that treats every frame other than a string as a container.
cfun_parse_insert_anyframe(P, v) ==
    LET token == TopState(P).consumer = "tokenchar"
        dead == janet_parser_checkdead(P)
        C == janet_parser_consume(P, Ch("SP"))
        Q == IF token THEN [C EXCEPT !.column = @ - 1] ELSE P
        s == TopState(Q)
    IN  IF token /\ dead # ""
        THEN [p |-> P, panic |-> dead]
        ELSE IF "STRING" \in s.flags \/ "LONGSTRING" \in s.flags
        THEN [p |-> [Q EXCEPT !.buf = @ \o janet_to_string(v)], panic |-> ""]
        ELSE [p |-> [SetTop(Q, [s EXCEPT !.argn = @ + 1]) EXCEPT
                        !.pending = IF statecount(Q) = 1 THEN @ + 1 ELSE @,
                        !.emit = IF statecount(Q) = 1 THEN Append(@, v) ELSE @,
                        !.args = Append(@, v)],
              panic |-> ""]

\* parser/insert: [p |-> the parser after the call, panic |-> the message or ""].
cfun_parse_insert(P, v) ==
    LET token == TopState(P).consumer = "tokenchar"
        dead == janet_parser_checkdead(P)
        C == janet_parser_consume(P, Ch("SP"))
        Q == IF token THEN [C EXCEPT !.column = @ - 1] ELSE P
        s == TopState(Q)
    IN  IF token /\ dead # ""
        THEN [p |-> P, panic |-> dead]
        ELSE IF "CONTAINER" \in s.flags
        THEN [p |-> [SetTop(Q, [s EXCEPT !.argn = @ + 1]) EXCEPT
                        !.pending = IF statecount(Q) = 1 THEN @ + 1 ELSE @,
                        !.emit = IF statecount(Q) = 1 THEN Append(@, v) ELSE @,
                        !.args = Append(@, v)],
              panic |-> ""]
        ELSE IF "STRING" \in s.flags \/ "LONGSTRING" \in s.flags
        THEN [p |-> [Q EXCEPT !.buf = @ \o janet_to_string(v)], panic |-> ""]
        ELSE [p |-> Q, panic |-> "cannot insert value into parser"]

(***************************************************************************)
(* Parser structs and the heap.                                            *)
(***************************************************************************)
Parsers == {1, 2}
NullPtr == 0

\* janet_parser_init: the struct, its blocks being args, states and buf.
janet_parser_init(args, states, buf) ==
    [alive |-> TRUE, args |-> args, states |-> states, buf |-> buf,
     error |-> NoError, lookback |-> -1, line |-> 1, column |-> 0,
     pending |-> 0, flag |-> 0]

RootFrame == Frame("root", {"CONTAINER"}, 0, 1, 0)

NoParser ==
    [alive |-> FALSE, args |-> NullPtr, states |-> NullPtr, buf |-> NullPtr,
     error |-> NoError, lookback |-> -1, line |-> 0, column |-> 0,
     pending |-> 0, flag |-> 0]

\* The parser value of struct s in heap h.
View(s, h) ==
    [args |-> h[s.args], states |-> h[s.states], buf |-> h[s.buf],
     error |-> s.error, lookback |-> s.lookback, line |-> s.line,
     column |-> s.column, pending |-> s.pending, flag |-> s.flag, emit |-> <<>>]

Load(i) == View(parsers[i], heap)

\* Struct s with the scalar fields of parser value Q.
Scalars(s, Q) ==
    [s EXCEPT !.error = Q.error, !.lookback = Q.lookback, !.line = Q.line,
              !.column = Q.column, !.pending = Q.pending, !.flag = Q.flag]

\* Heap h with the three blocks of struct s holding the stacks of Q.
Blocks(s, h, Q) ==
    [a \in DOMAIN h |->
        IF a = s.states THEN Q.states
        ELSE IF a = s.args THEN Q.args
        ELSE IF a = s.buf THEN Q.buf
        ELSE h[a]]

\* clone that copies the buf pointer instead of the bytes.
janet_parser_clone_sharedbuf(s, h) ==
    LET dest == [s EXCEPT !.args = s.args + 3, !.states = s.states + 3]
    IN  [dest |-> dest,
         heap |-> [a \in DOMAIN h |->
                     IF a = dest.args THEN h[s.args]
                     ELSE IF a = dest.states THEN h[s.states]
                     ELSE h[a]]]

\* janet_parser_clone: the dest struct and the heap after the call; the three
\* blocks of dest are fresh (malloc) and hold copies (memcpy).
janet_parser_clone(s, h) ==
    LET dest == [s EXCEPT !.args = s.args + 3, !.states = s.states + 3, !.buf = s.buf + 3]
    IN  [dest |-> dest,
         heap |-> [a \in DOMAIN h |->
                     IF a = dest.args THEN h[s.args]
                     ELSE IF a = dest.states THEN h[s.states]
                     ELSE IF a = dest.buf THEN h[s.buf]
                     ELSE h[a]]]

(***************************************************************************)
(* The calls, as actions on parser i.                                      *)
(***************************************************************************)
CString(msg) == [t |-> "cstring", s |-> msg]

Call(op, who, arg, ret, panic) ==
    [op |-> op, who |-> who, arg |-> arg, ret |-> ret, panic |-> panic]

\* Parser i becomes Q; queue is its history of unproduced top-level values.
Commit(i, Q, queue, call) ==
    /\ parsers' = [parsers EXCEPT ![i] = Scalars(@, Q)]
    /\ heap' = Blocks(parsers[i], heap, Q)
    /\ tlq' = [tlq EXCEPT ![i] = queue]
    /\ last' = call

\* parser/byte, or parser/consume of one byte
Consume(i, c) ==
    /\ parsers[i].alive
    /\ \E P \in {Load(i)} : \E Q \in {janet_parser_consume(P, c)} :
          Commit(i, Q, tlq[i] \o Q.emit,
                 Call("consume", i, c, NilV, janet_parser_checkdead(P)))

Eof(i) ==
    /\ parsers[i].alive
    /\ \E P \in {Load(i)} : \E Q \in {janet_parser_eof(P)} :
          Commit(i, Q, tlq[i] \o Q.emit,
                 Call("eof", i, -1, NilV, janet_parser_checkdead(P)))

Error(i) ==
    /\ parsers[i].alive
    /\ \E P \in {Load(i)} :
       \E Q \in {janet_parser_error(P)} : \E e \in {janet_parser_error_ret(P)} :
          Commit(i, Q, IF e # NoError THEN <<>> ELSE tlq[i],
                 Call("error", i, -1, IF e # NoError THEN CString(e) ELSE NilV, ""))

Flush(i) ==
    /\ parsers[i].alive
    /\ \E Q \in {janet_parser_flush(Load(i))} :
          Commit(i, Q, <<>>, Call("flush", i, -1, NilV, ""))

ProduceCall(i) ==
    /\ parsers[i].alive
    /\ \E P \in {Load(i)} : \E Q \in {janet_parser_produce(P)} :
          Commit(i, Q, IF tlq[i] = <<>> THEN <<>> ELSE Tail(tlq[i]),
                 Call("produce", i, -1, janet_parser_produce_ret(P), ""))

Produce(i) == ProduceCall(i) /\ UNCHANGED <<nfed, nins, src, out>>

\* The value handed to parser/insert.
InsertVals == {StringV(<<Ch("v")>>)}

Insert(i, v) ==
    /\ parsers[i].alive
    /\ nins < MaxInserts
    /\ nins' = nins + 1
    /\ \E P \in {Load(i)} : \E r \in {cfun_parse_insert(P, v)} :
          Commit(i, r.p, tlq[i] \o r.p.emit, Call("insert", i, -1, v, r.panic))
    /\ UNCHANGED <<nfed, src, out>>

\* parser/clone of parser 1 into parser 2
Clone ==
    /\ parsers[1].alive
    /\ ~parsers[2].alive
    /\ \E r \in {janet_parser_clone(parsers[1], heap)} :
          /\ parsers' = [parsers EXCEPT ![2] = r.dest]
          /\ heap' = r.heap
    /\ tlq' = [tlq EXCEPT ![2] = tlq[1]]
    /\ last' = Call("clone", 1, -1, NilV, "")
    /\ UNCHANGED <<nfed, nins, src, out>>

\* One byte of alphabet A, while fewer than max bytes were fed.
Feed(i, A, max) ==
    /\ nfed < max
    /\ nfed' = nfed + 1
    /\ \E c \in A : Consume(i, c)
    /\ UNCHANGED <<nins, src, out>>

Quiet(A) == A /\ UNCHANGED <<nfed, nins, src, out>>

\* A call outside the call budget of SpecClone.
Uncounted(A) == A /\ UNCHANGED ncalls /\ UNCHANGED cvars

InitHeap == [a \in 1..6 |-> IF a = 2 THEN <<RootFrame>> ELSE <<>>]

\* parser/new: parser 1 is initialised, parser 2 is not yet allocated.
InitParser ==
    /\ parsers = [i \in Parsers |-> IF i = 1 THEN janet_parser_init(1, 2, 3) ELSE NoParser]
    /\ heap = InitHeap
    /\ last = Call("new", 1, -1, NilV, "")
    /\ tlq = [i \in Parsers |-> <<>>]
    /\ nfed = 0
    /\ nins = 0
    /\ ncalls = 0
    /\ out = <<>>

\* The symbol cache after janet_symcache_init: 1024 zeroed slots.  The
\* cache array is kept sparsely: an index outside DOMAIN cache holds NULL.
janet_symcache_init ==
    [cache |-> <<>>, capacity |-> 1024, count |-> 0, deleted |-> 0, mem |-> <<>>]

\* janet_mailbox_create(parent, refCount): an open mailbox with an empty buffer.
janet_mailbox_create(refCount) ==
    [refCount |-> refCount, closed |-> 0, buf |-> <<>>, destroyed |-> FALSE]

\* After cfun_thread_new: the child's mailbox has two references (the child
\* and the parent's handle), and thread_worker is about to receive the
\* function to run, without a timeout.
cfun_thread_new ==
    [mailbox |-> janet_mailbox_create(2),
     handle |-> 1,   \* thread->mailbox: the address of the mailbox, or NullPtr
     child |-> [pc |-> "locking", timeout |-> -1, ret |-> 0],
     parent |-> [pc |-> "idle", op |-> "new", ret |-> 0],
     nops |-> 0]

\* No dst_compile call is running, and the VM has just been initialised.
NoCompile ==
    /\ threads = cfun_thread_new
    /\ comp = [t |-> "none"]
    /\ cpc = "idle"
    /\ cret = [op |-> "none"]
    /\ vm = janet_symcache_init
    /\ vmret = [op |-> "none"]

Init == InitParser /\ src = <<>> /\ NoCompile

(***************************************************************************)
(* Spec: one parser, every call, bytes of Alphabet.                        *)
(***************************************************************************)
Alphabet ==
    {Ch("LPAREN"), Ch("RPAREN"), Ch("a"), Ch("c1"), Ch("SP"), Ch("LF"), Ch("DQ"), Ch("QUOTE")}

Next ==
    \/ Uncounted(Feed(1, Alphabet, MaxBytes))
    \/ Uncounted(Quiet(Eof(1)))
    \/ Uncounted(Quiet(Error(1)))
    \/ Uncounted(Quiet(Flush(1)))
    \/ Uncounted(Produce(1))
    \/ \E v \in InsertVals : Uncounted(Insert(1, v))

Spec == Init /\ [][Next]_vars

(***************************************************************************)
(* Properties of Spec.  P1 is parser 1 before a step and P1' after it; Op  *)
(* is the call the step made.                                              *)
(***************************************************************************)
P1 == Load(1)
MsgDead == "parser is dead, cannot consume"
MsgUnchecked == "parser has unchecked error, cannot consume"
MsgEof == "unexpected end of source"

\* The parser state a caller can observe or that later calls depend on.
Same(P, Q) ==
    /\ P.line = Q.line /\ P.column = Q.column /\ P.lookback = Q.lookback
    /\ P.states = Q.states /\ P.buf = Q.buf /\ P.args = Q.args
    /\ P.pending = Q.pending /\ P.error = Q.error /\ P.flag = Q.flag

\* C1: consume on a dead parser or on one with an unchecked error fails with
\* the matching message before any update (line, column, lookback, frames,
\* buffer, arguments and pending are unchanged); the dead flag is never
\* cleared, and an error is cleared by no call other than error().
C1_RejectedConsume ==
    [][/\ (last'.op = "consume" /\ P1.flag # 0)
            => (last'.panic = MsgDead /\ Same(P1, P1'))
       /\ (last'.op = "consume" /\ P1.flag = 0 /\ P1.error # NoError)
            => (last'.panic = MsgUnchecked /\ Same(P1, P1'))
       /\ (P1.flag # 0) => (P1'.flag # 0)
       /\ (P1.error # NoError /\ last'.op # "error") => (P1'.error # NoError)]_vars

\* A consume was rejected for an unchecked error while a form was open.
C1_Witness ==
    /\ last.op = "consume" /\ last.panic = MsgUnchecked
    /\ statecount(P1) > 1 /\ P1.flag = 0

\* C2: with status error, error() returns the message, clears it and flushes
\* (only the root frame, empty buffer and argument stack, pending 0, status
\* root, or dead after eof); otherwise it returns nil and changes nothing.
C2_ErrorCall ==
    [][last'.op = "error" =>
        IF janet_parser_status(P1) = "error"
        THEN /\ last'.ret = CString(P1.error)
             /\ P1'.error = NoError
             /\ statecount(P1') = 1
             /\ TopState(P1').consumer = "root" /\ TopState(P1').flags = {"CONTAINER"}
             /\ P1'.buf = <<>> /\ P1'.args = <<>> /\ P1'.pending = 0
             /\ janet_parser_status(P1') = (IF P1.flag # 0 THEN "dead" ELSE "root")
        ELSE last'.ret = NilV /\ Same(P1, P1')]_vars

\* error() returned the end-of-source message of a dead parser.
C2_Witness ==
    /\ last.op = "error" /\ last.ret = CString(MsgEof)
    /\ janet_parser_status(P1) = "dead"

\* C3: eof() on a live, error-free parser marks it dead and sets the error
\* "unexpected end of source" exactly when a frame beyond root is open after
\* the synthetic LF; afterwards eof and consume fail with parser-dead, and the
\* status is never root or pending again.
C3_Eof ==
    [][/\ (last'.op = "eof" /\ janet_parser_checkdead(P1) = "")
            => /\ P1'.flag # 0
               /\ (statecount(P1') > 1) => (P1'.error = MsgEof)
               /\ (statecount(P1') = 1) => (P1'.error = NoError)
       /\ (last'.op \in {"eof", "consume"} /\ P1.flag # 0)
            => (last'.panic = MsgDead /\ Same(P1, P1'))
       /\ (P1.flag # 0) => (janet_parser_status(P1') \in {"dead", "error"})]_vars

\* After eof, an insert went through and the parser stays dead.
C3_Witness ==
    /\ last.op = "insert" /\ last.panic = ""
    /\ P1.flag # 0 /\ janet_parser_status(P1) = "dead" /\ P1.pending > 0

\* C4: produce returns the top-level values in the order their forms closed,
\* also while a later form is open; with pending = 0 it returns nil and
\* changes nothing.  (tlq is the history of closed, unproduced values.)
C4_ProduceOrder ==
    [][last'.op = "produce" =>
        IF P1.pending > 0
        THEN /\ tlq[1] # <<>>
             /\ last'.ret = Head(tlq[1])
             /\ P1'.pending = P1.pending - 1
        ELSE last'.ret = NilV /\ Same(P1, P1')]_vars

\* produce returned a value while another is pending and a later form is open.
C4_Witness ==
    /\ last.op = "produce" /\ last.ret # NilV
    /\ P1.pending > 0 /\ statecount(P1) > 1
    /\ last.ret # P1.args[1]

\* The number of argument-stack values that belong to open containers other
\* than root.
RECURSIVE OpenArgs(_, _)
OpenArgs(states, i) ==
    IF i > Len(states) THEN 0
    ELSE (IF "CONTAINER" \in states[i].flags THEN states[i].argn ELSE 0)
            + OpenArgs(states, i + 1)

\* C5: a value becomes available only in a step that feeds a byte (consume,
\* the LF of eof, the space insert feeds to finish a token) and completes a
\* form opened at root, or by insert once only root is open; the first
\* `pending` values of the argument stack are never elements of a container
\* that is still open.
C5_Available ==
    /\ [](argcount(P1) = P1.pending + OpenArgs(P1.states, 2))
    /\ [][(P1'.pending > P1.pending) =>
            \/ /\ last'.op \in {"consume", "eof"}
               /\ statecount(P1) >= 2
               /\ P1'.pending = P1.pending + 1
            \/ /\ last'.op = "insert" /\ last'.panic = ""
               /\ statecount(P1') = 1
               /\ \/ (statecount(P1) = 1 /\ P1'.pending = P1.pending + 1)
                  \/ (statecount(P1) >= 2 /\ TopState(P1).consumer = "tokenchar"
                        /\ P1'.pending = P1.pending + 2)]_vars

\* A value is pending while an open container holds an element.
C5_Witness ==
    /\ P1.pending > 0 /\ statecount(P1) > 1
    /\ "CONTAINER" \in TopState(P1).flags /\ TopState(P1).argn > 0

OneOpenParen(P) ==
    /\ statecount(P) = 2
    /\ "PARENS" \in P.states[2].flags /\ "ATSYM" \notin P.states[2].flags

\* C8 as stated: eof with exactly one unclosed "(" reports "unexpected end of
\* source" with the parser's position (where) at the line and column at which
\* the "(" was opened.
C8_ErrorAtOpening ==
    [][(last'.op = "eof" /\ janet_parser_checkdead(P1) = "" /\ OneOpenParen(P1'))
        => /\ P1'.error = MsgEof
           /\ cfun_parse_where(P1') = <<P1'.states[2].line, P1'.states[2].column>>]_vars

\* C8, amended: eof with exactly one unclosed "(" sets "unexpected end of
\* source" and leaves the parser's position (where) at the cursor position
\* of the end of input, as it was before the call; the opening line and column
\* stay recorded only in the frame of the "(", which took them from the
\* cursor when the "(" was consumed.
C8_ErrorAtCursor ==
    [][/\ (last'.op = "eof" /\ janet_parser_checkdead(P1) = "" /\ OneOpenParen(P1'))
            => /\ P1'.error = MsgEof
               /\ cfun_parse_where(P1') = cfun_parse_where(P1)
               /\ P1'.states[2].line = P1.states[2].line
               /\ P1'.states[2].column = P1.states[2].column
       /\ (last'.op = "consume" /\ last'.arg = Ch("LPAREN") /\ last'.panic = ""
             /\ TopState(P1).consumer = "root")
            => /\ statecount(P1') = statecount(P1) + 1
               /\ "PARENS" \in TopState(P1').flags
               /\ <<TopState(P1').line, TopState(P1').column>> = cfun_parse_where(P1')]_vars

\* eof on one unclosed "(" left the position away from where the "(" opened.
C8_Witness ==
    /\ last.op = "eof" /\ last.panic = "" /\ OneOpenParen(P1) /\ P1.error = MsgEof
    /\ cfun_parse_where(P1) # <<P1.states[2].line, P1.states[2].column>>
    /\ P1.line > P1.states[2].line

\* C16: flush on a live parser that met an error (error() not called) clears
\* the frames, the buffer and the values, leaves line and column alone, and
\* leaves a parser whose status is not error and that accepts bytes again.
C16_FlushRecovers ==
    [][(last'.op = "flush" /\ P1.error # NoError /\ P1.flag = 0)
        => /\ statecount(P1') = 1 /\ P1'.buf = <<>> /\ P1'.args = <<>> /\ P1'.pending = 0
           /\ cfun_parse_where(P1') = cfun_parse_where(P1)
           /\ janet_parser_status(P1') # "error"
           /\ janet_parser_checkdead(P1') = ""]_vars

(***************************************************************************)
(* SpecClone: parser 1 and its clone, parser 2, every call on both.        *)
(***************************************************************************)
CloneAlphabet == {Ch("LPAREN"), Ch("RPAREN"), Ch("a"), Ch("DQ")}

\* Before the clone parser 1 is fed up to MaxBytes bytes; after it at most
\* MaxCloneCalls calls are made, on either parser.
Counted(A) ==
    /\ parsers[2].alive
    /\ ncalls < MaxCloneCalls
    /\ ncalls' = ncalls + 1
    /\ A
    /\ UNCHANGED cvars

NextClone ==
    \/ Uncounted(Clone)
    \/ ~parsers[2].alive /\ Uncounted(Feed(1, CloneAlphabet, MaxBytes))
    \/ \E i \in Parsers :
        \/ Counted(Feed(i, CloneAlphabet, MaxBytes + MaxCloneCalls))
        \/ Counted(Quiet(Eof(i)))
        \/ Counted(Quiet(Error(i)))
        \/ Counted(Quiet(Flush(i)))
        \/ Counted(Produce(i))
        \/ \E v \in InsertVals : Counted(Insert(i, v))

SpecClone == Init /\ [][NextClone]_vars

Pointers(s) == {s.args, s.states, s.buf}

\* C6: clone() gives a parser equal to the original in every field and stack
\* and sharing no block with it; afterwards every call on one of the two
\* leaves line, column, lookback, frames, buffer, arguments, pending, error
\* and dead flag of the other unchanged; and the same call made first on the
\* original and then on the clone gives the same result, failure and status
\* and leaves the two equal again.
C6_CloneIndependent ==
    [][/\ (last'.op = "clone")
            => /\ parsers'[2].alive
               /\ Same(View(parsers'[2], heap'), View(parsers[1], heap))
               /\ Same(View(parsers'[1], heap'), View(parsers[1], heap))
               /\ Pointers(parsers'[2]) \cap Pointers(parsers'[1]) = {}
       /\ \A i \in Parsers : \A j \in Parsers \ {i} :
            (last'.op # "clone" /\ last'.who = i /\ parsers[j].alive)
                => Same(View(parsers'[j], heap'), View(parsers[j], heap))
       /\ (ncalls = 1 /\ last.who = 1 /\ last'.who = 2
             /\ last'.op = last.op /\ last'.arg = last.arg
             /\ (last.op = "insert" => last'.ret = last.ret))
            => /\ last'.ret = last.ret /\ last'.panic = last.panic
               /\ Same(View(parsers'[2], heap'), View(parsers'[1], heap'))
               /\ janet_parser_status(View(parsers'[2], heap'))
                    = janet_parser_status(View(parsers'[1], heap'))]_vars

\* Original and clone have gone different ways in frames, arguments and buffer.
C6_Witness ==
    /\ parsers[2].alive /\ last.who = 2
    /\ Load(1).states # Load(2).states
    /\ Load(1).args # Load(2).args
    /\ Load(1).buf # Load(2).buf

(***************************************************************************)
(* SpecScript: parser 1 is fed a source text byte by byte; the values are  *)
(* taken with produce while has-more says there is one, and eof is called  *)
(* once the text is used up.  src is the text, nfed the bytes fed so far.  *)
(***************************************************************************)
Text(names) == [i \in 1..Len(names) |-> Ch(names[i])]

\* " ; one\n(def x 10) x "
SemicolonText ==
    Text(<<"SP", "SEMI", "SP", "o", "n", "e", "LF", "LPAREN", "d", "e", "f", "SP",
           "x", "SP", "c1", "c0", "RPAREN", "SP", "x", "SP">>)

\* " , one\n(def x 10) x "
CommaText ==
    Text(<<"SP", "COMMA", "SP", "o", "n", "e", "LF", "LPAREN", "d", "e", "f", "SP",
           "x", "SP", "c1", "c0", "RPAREN", "SP", "x", "SP">>)

\* "(a ,b ;(x) 'a)\nx"
ContainerText ==
    Text(<<"LPAREN", "a", "SP", "COMMA", "b", "SP", "SEMI", "LPAREN", "x", "RPAREN",
           "SP", "QUOTE", "a", "RPAREN", "LF", "x">>)

Scripts == {SemicolonText, CommaText, ContainerText}

InitScript == InitParser /\ src \in Scripts /\ NoCompile

ScriptFeed ==
    /\ nfed < Len(src)
    /\ nfed' = nfed + 1
    /\ Consume(1, src[nfed + 1])
    /\ UNCHANGED <<nins, ncalls, src, out>>
    /\ UNCHANGED cvars

ScriptProduce ==
    /\ parsers[1].alive
    /\ janet_parser_has_more(Load(1))
    /\ ProduceCall(1)
    /\ out' = Append(out, janet_parser_produce_ret(Load(1)))
    /\ UNCHANGED <<nfed, nins, ncalls, src>>
    /\ UNCHANGED cvars

ScriptEof ==
    /\ nfed = Len(src)
    /\ last.op # "eof"
    /\ Quiet(Eof(1))
    /\ UNCHANGED ncalls
    /\ UNCHANGED cvars

NextScript == ScriptFeed \/ ScriptProduce \/ ScriptEof

SpecScript == InitScript /\ [][NextScript]_vars

\* The whole text was fed and every value was taken.
ScriptDone == nfed = Len(src) /\ ~janet_parser_has_more(P1)

\* A tuple as the parser hands it over: built at line, column.
TupleAt(items, line, column) ==
    [TupleV(items, FALSE) EXCEPT !.line = line, !.column = column]

Sym(names) == SymbolV(Text(names))

DefX10At(line, column) ==
    TupleAt(<<Sym(<<"d", "e", "f">>), Sym(<<"x">>), NumV(10)>>, line, column)

\* A consume of ',' or ';' by the root consumer (at top level or in a container).
AtCommaOrSemicolon ==
    /\ last'.op = "consume" /\ last'.panic = ""
    /\ last'.arg \in {Ch("COMMA"), Ch("SEMI")}
    /\ TopState(P1).consumer = "root"

\* C9 as stated: ',' and ';' are whitespace: consumed in root or container
\* context they push no frame and neither produce nor wrap a value, so that
\* " ; one\n(def x 10) x " yields exactly (def x 10) and then x.
C9_CommaSemicolonWhitespace ==
    /\ []((src = SemicolonText /\ ScriptDone)
            => out = <<DefX10At(2, 1), Sym(<<"x">>)>>)
    /\ [][AtCommaOrSemicolon
            => /\ P1'.states = P1.states
               /\ P1'.args = P1.args /\ P1'.pending = P1.pending]_vars

\* C9, amended: ',' and ';' are the reader macros unquote and splice, not
\* whitespace: consumed in root or container context each pushes a
\* reader-macro frame carrying the byte and adds no value by itself, and the
\* next completed value is wrapped by it, so that " ; one\n(def x 10) x "
\* yields exactly (splice one), then (def x 10), then x.
C9_CommaSemicolonReaderMacros ==
    /\ []((src = SemicolonText /\ ScriptDone)
            => out = <<TupleAt(<<Sym(<<"s", "p", "l", "i", "c", "e">>),
                                 Sym(<<"o", "n", "e">>)>>, 1, 2),
                       DefX10At(2, 1), Sym(<<"x">>)>>)
    /\ [][AtCommaOrSemicolon
            => /\ statecount(P1') = statecount(P1) + 1
               /\ SubSeq(P1'.states, 1, statecount(P1)) = P1.states
               /\ TopState(P1').consumer = "root"
               /\ TopState(P1').flags = {"READERMAC"}
               /\ TopState(P1').mac = last'.arg
               /\ P1'.args = P1.args /\ P1'.pending = P1.pending
               /\ P1'.error = NoError]_vars

\* The semicolon text was fed to its end and gave three values, the first a
\* splice form.
C9_Witness ==
    /\ src = SemicolonText /\ ScriptDone /\ last.op = "eof"
    /\ Len(out) = 3
    /\ out[1].t = "tuple" /\ out[1].items[1] = Sym(<<"s", "p", "l", "i", "c", "e">>)

(***************************************************************************)
(* SpecReader: one parser fed reader-macro bytes, symbols and parentheses. *)
(***************************************************************************)
ReaderAlphabet ==
    {Ch("QUOTE"), Ch("COMMA"), Ch("SEMI"), Ch("TILDE"), Ch("PIPE"),
     Ch("a"), Ch("SP"), Ch("LPAREN"), Ch("RPAREN")}

NextReader ==
    \/ Uncounted(Feed(1, ReaderAlphabet, MaxReaderBytes))
    \/ Uncounted(Quiet(Eof(1)))
    \/ Uncounted(Produce(1))

SpecReader == Init /\ [][NextReader]_vars

\* The number of reader-macro frames in a row ending at frame i.
RECURSIVE MacRun(_, _)
MacRun(states, i) ==
    IF i >= 1 /\ "READERMAC" \in states[i].flags THEN 1 + MacRun(states, i - 1) ELSE 0

\* The name the claim gives to a reader-macro byte: ' , ; ~ |
WrapperName(c) ==
    CASE c = 39 -> Text(<<"q", "u", "o", "t", "e">>)
      [] c = 44 -> Text(<<"u", "n", "q", "u", "o", "t", "e">>)
      [] c = 59 -> Text(<<"s", "p", "l", "i", "c", "e">>)
      [] c = 126 -> Text(<<"q", "u", "a", "s", "i", "q", "u", "o", "t", "e">>)
      [] c = 124 -> Text(<<"s", "h", "o", "r", "t", "MINUS", "f", "n">>)

\* val is a value in the wrappers of the reader-macro frames frames[lo..hi],
\* the wrapper of the first byte outermost.
RECURSIVE IsWrapped(_, _, _, _)
IsWrapped(val, frames, lo, hi) ==
    IF lo > hi THEN TRUE
    ELSE /\ val.t = "tuple" /\ ~val.bracket /\ Len(val.items) = 2
         /\ val.items[1] = SymbolV(WrapperName(frames[lo].mac))
         /\ IsWrapped(val.items[2], frames, lo + 1, hi)

\* val without its j outermost wrappers.
RECURSIVE Peel(_, _)
Peel(val, j) == IF j = 0 THEN val ELSE Peel(val.items[2], j - 1)

\* C10: when a value completes (a token is ended, a tuple is closed) above
\* k >= 1 reader-macro frames pushed by bytes of ' , ; ~ |, the frame
\* enclosing them receives exactly one value, the completed value wrapped in
\* k 2-tuples (name v) with name quote, unquote, splice, quasiquote,
\* short-fn by byte, the first byte's wrapper outermost.  The enclosing
\* frame may be closed by the same byte (")" ending the token): then the
\* wrapped value is the last element of the tuple it closes.
C10_ReaderMacros ==
    [][LET P == P1
           Q == P1'
           c == IF last'.op = "eof" THEN Ch("LF") ELSE last'.arg
           n == statecount(P)
           F == P.states[n]
           k == MacRun(P.states, n - 1)
           e == n - 1 - k
           E == P.states[e]
           own == IF "CONTAINER" \in F.flags THEN F.argn ELSE 0
           pos == Len(P.args) - own + 1
           first == pos - E.argn
           completes ==
                \/ F.consumer = "tokenchar" /\ ~is_symbol_char(c)
                \/ "PARENS" \in F.flags /\ c = Ch("RPAREN")
           Completed(val) ==
                IF F.consumer = "tokenchar" THEN val = SymbolV(P.buf)
                ELSE /\ val.t = "tuple"
                     /\ val.items = SubSeq(P.args, pos, Len(P.args))
           Delivered(val) ==
                /\ IsWrapped(val, P.states, e + 1, n - 1)
                /\ Completed(Peel(val, k))
       IN  (last'.op \in {"consume", "eof"} /\ last'.panic = ""
                /\ n >= 3 /\ k >= 1 /\ completes)
            => IF c = Ch("RPAREN") /\ F.consumer = "tokenchar" /\ e >= 2
               THEN \* the byte that ended the token closed the enclosing tuple
                    LET j == MacRun(P.states, e - 1)
                        T == Peel(Q.args[first], j)
                    IN  /\ statecount(Q) = e - 1 - j
                        /\ Len(Q.args) = first
                        /\ T.t = "tuple" /\ Len(T.items) = E.argn + 1
                        /\ SubSeq(T.items, 1, E.argn) = SubSeq(P.args, first, pos - 1)
                        /\ Delivered(T.items[E.argn + 1])
               ELSE /\ statecount(Q) >= e
                    /\ SubSeq(Q.states, 1, e) = [SubSeq(P.states, 1, e) EXCEPT ![e].argn = @ + 1]
                    /\ Len(Q.args) = pos
                    /\ SubSeq(Q.args, 1, pos - 1) = SubSeq(P.args, 1, pos - 1)
                    /\ Delivered(Q.args[pos])
                    /\ Q.pending = P.pending + (IF e = 1 THEN 1 ELSE 0)]_vars

\* The bytes ' , a and a space were fed: (quote (unquote a)) is pending.
C10_Witness ==
    /\ last.op = "consume" /\ last.arg = Ch("SP") /\ P1.pending = 1
    /\ statecount(P1) = 1
    /\ P1.args[1].t = "tuple" /\ Len(P1.args[1].items) = 2
    /\ P1.args[1].items[1] = Sym(<<"q", "u", "o", "t", "e">>)
    /\ P1.args[1].items[2].t = "tuple"
    /\ P1.args[1].items[2].items = <<Sym(<<"u", "n", "q", "u", "o", "t", "e">>), Sym(<<"a">>)>>

(***************************************************************************)
(* SpecDelim: one parser fed delimiters, reader macros, "@" and symbols;   *)
(* error() lets a run go on after an error.                                *)
(***************************************************************************)
DelimAlphabet ==
    {Ch("LPAREN"), Ch("RPAREN"), Ch("LBRACKET"), Ch("RBRACKET"), Ch("LBRACE"),
     Ch("RBRACE"), Ch("QUOTE"), Ch("AT"), Ch("a"), Ch("SP")}

NextDelim ==
    \/ Uncounted(Feed(1, DelimAlphabet, MaxDelimBytes))
    \/ Uncounted(Quiet(Error(1)))

SpecDelim == Init /\ [][NextDelim]_vars

MsgUnexpected == "unexpected delimiter"
MsgMismatched == "mismatched delimiter"
MsgOdd == "struct and table literals expect even number of arguments"

\* Closer c is of the kind of frame F.
Matches(c, F) ==
    \/ c = Ch("RPAREN") /\ "PARENS" \in F.flags
    \/ c = Ch("RBRACKET") /\ "SQRBRACKETS" \in F.flags
    \/ c = Ch("RBRACE") /\ "CURLYBRACKETS" \in F.flags

\* C11: a closing delimiter reaching the root consumer (the innermost open
\* frame is root, a container or a reader-macro frame): with only root open
\* it gives "unexpected delimiter"; not matching the innermost frame's kind
\* (a reader-macro frame matches none) it gives "mismatched delimiter"; "}"
\* on a frame of an odd number of values gives the even-number error; in
\* these cases frames, arguments, buffer and pending are unchanged.
\* Otherwise the frame is popped and its values become one value.
C11_Closers ==
    [][LET P == P1
           Q == P1'
           c == last'.arg
           n == statecount(P)
           F == TopState(P)
           kept == /\ Q.states = P.states /\ Q.args = P.args
                   /\ Q.buf = P.buf /\ Q.pending = P.pending
       IN  (last'.op = "consume" /\ last'.panic = "" /\ IsCloser(c)
                /\ F.consumer = "root")
            => IF n = 1 THEN Q.error = MsgUnexpected /\ kept
               ELSE IF ~Matches(c, F) THEN Q.error = MsgMismatched /\ kept
               ELSE IF c = Ch("RBRACE") /\ F.argn % 2 = 1 THEN Q.error = MsgOdd /\ kept
               ELSE /\ Q.error = NoError
                    /\ statecount(Q) < n
                    /\ SubSeq(Q.states, 1, statecount(Q) - 1)
                            = SubSeq(P.states, 1, statecount(Q) - 1)
                    /\ Len(Q.args) = Len(P.args) - F.argn + 1]_vars

\* "]" met a reader-macro frame inside "(" and was refused.
C11_Witness ==
    /\ last.op = "consume" /\ last.arg = Ch("RBRACKET") /\ last.panic = ""
    /\ P1.error = MsgMismatched
    /\ statecount(P1) = 3 /\ "READERMAC" \in TopState(P1).flags
    /\ "PARENS" \in P1.states[2].flags

(***************************************************************************)
(* SpecLong: a live parser fed backticks, "a" and LF, then eof; src is the *)
(* text fed so far.                                                        *)
(***************************************************************************)
LongAlphabet == {Ch("BACKTICK"), Ch("a"), Ch("LF")}

\* One byte of alphabet A to a parser that accepts bytes; src records it.
FeedText(A, max) ==
    /\ nfed < max
    /\ nfed' = nfed + 1
    /\ janet_parser_checkdead(Load(1)) = ""
    /\ \E c \in A : Consume(1, c) /\ src' = Append(src, c)
    /\ UNCHANGED <<nins, ncalls, out>>
    /\ UNCHANGED cvars

FeedLong == FeedText(LongAlphabet, MaxLongBytes)

NextLong == FeedLong \/ Uncounted(Quiet(Eof(1)))

SpecLong == Init /\ [][NextLong]_vars

\* The number of backticks text w begins with.
LeadRun(w) ==
    CHOOSE k \in 0..Len(w) :
        /\ \A i \in 1..k : w[i] = 96
        /\ k = Len(w) \/ w[k + 1] # 96

\* The places after the opening fence of n backticks where n backticks stand in a row.
Fences(w, n) ==
    {j \in (n + 2)..Len(w) : j + n - 1 <= Len(w) /\ \A i \in j..(j + n - 1) : w[i] = 96}

FirstFence(w, n) == CHOOSE j \in Fences(w, n) : \A k \in Fences(w, n) : j <= k

\* b without one LF at its start and, of what is left, without one LF at its end.
StripLF(b) ==
    LET b1 == IF Len(b) > 0 /\ b[1] = 10 THEN SubSeq(b, 2, Len(b)) ELSE b
    IN  IF Len(b1) > 0 /\ b1[Len(b1)] = 10 THEN SubSeq(b1, 1, Len(b1) - 1) ELSE b1

\* C12: a text beginning with N backticks gives its first value once a byte
\* (or eof) follows the first later run of N backticks; the value is the
\* string of the bytes between the two fences, shorter runs of backticks
\* included, less one LF right after the opening fence and one LF right
\* before the closing fence.  Until then no value is available.
C12_LongString ==
    (src # <<>> /\ src[1] = 96) =>
        LET n == LeadRun(src)
            closed == Fences(src, n) # {}
            j == FirstFence(src, n)
        IN  IF closed /\ (Len(src) >= j + n \/ P1.flag # 0)
            THEN /\ P1.pending >= 1
                 /\ P1.args[1] = StringV(StripLF(SubSeq(src, n + 1, j - 1)))
            ELSE P1.pending = 0 /\ P1.args = <<>>

\* A two-backtick string holding a single backtick, its leading LF removed.
C12_Witness ==
    /\ Len(src) = 7 /\ src[1] = 96 /\ src[2] = 96 /\ src[3] = 10
    /\ P1.pending = 1 /\ P1.args[1] = StringV(<<96, 97>>)

(***************************************************************************)
(* SpecLines: a parser fed CR, LF and other bytes, with error() and eof;   *)
(* src is the text consumed so far.                                        *)
(***************************************************************************)
LineAlphabet == {Ch("CR"), Ch("LF"), Ch("a"), Ch("RPAREN"), Ch("DQ")}

FeedLines == FeedText(LineAlphabet, MaxLineBytes)

NextLines ==
    \/ FeedLines
    \/ Uncounted(Quiet(Error(1)))
    \/ Uncounted(Quiet(Eof(1)))

SpecLines == Init /\ [][NextLines]_vars

\* The places of the line ends of text w: each CR, and each LF that does not
\* follow a CR.
LineEnds(w) ==
    {i \in 1..Len(w) : w[i] = 13 \/ (w[i] = 10 /\ (i = 1 \/ w[i - 1] # 13))}

\* The place of the last CR or LF of w, 0 if there is none.
LastBreak(w) ==
    CHOOSE i \in 0..Len(w) :
        /\ i > 0 => w[i] \in {10, 13}
        /\ \A k \in (i + 1)..Len(w) : w[k] \notin {10, 13}

\* C13: from line 1, column 0, after any consumed text the line is 1 plus
\* the number of CRs and of LFs not right after a CR (a CRLF pair counts
\* once), and the column is the number of bytes since the last CR or LF.
C13_LineColumn ==
    /\ P1.line = 1 + Cardinality(LineEnds(src))
    /\ P1.column = Len(src) - LastBreak(src)

\* CR LF LF a: line 3, column 1.
C13_Witness ==
    /\ src = <<13, 10, 10, 97>>
    /\ P1.line = 3 /\ P1.column = 1

(***************************************************************************)
(* SpecSym: the symbol-character test applied to one byte; src holds the   *)
(* byte, out the answer.                                                   *)
(***************************************************************************)
Bytes == 0..255

InitSym == InitParser /\ src \in {<<c>> : c \in Bytes} /\ NoCompile

Classify ==
    /\ out = <<>>
    /\ out' = <<is_symbol_char(src[1])>>
    /\ UNCHANGED <<parsers, heap, last, tlq, nfed, nins, ncalls, src>>
    /\ UNCHANGED cvars

SpecSym == InitSym /\ [][Classify]_vars

Letters == (65..90) \cup (97..122)
Digits == 48..57

\* ! $ % & * + - . / : < = > @ \ ^ _ ~ |
StatedPunctuation ==
    {33, 36, 37, 38, 42, 43, 45, 46, 47, 58, 60, 61, 62, 64, 92, 94, 95, 126, 124}

\* ! $ % & * + - . / : < = > ? @ ^ _
TablePunctuation ==
    {33, 36, 37, 38, 42, 43, 45, 46, 47, 58, 60, 61, 62, 63, 64, 94, 95}

InsertAlphabet ==
    {Ch("LPAREN"), Ch("QUOTE"), Ch("AT"), Ch("HASH"), Ch("DQ"), Ch("BACKTICK"),
     Ch("a"), Ch("c1"), Ch("SP")}

NextInsert ==
    \/ Uncounted(Feed(1, InsertAlphabet, MaxInsertBytes))
    \/ \E v \in InsertVals : Uncounted(Insert(1, v))
    \/ Uncounted(Quiet(Eof(1)))

SpecInsert == Init /\ [][NextInsert]_vars

MsgInsert == "cannot insert value into parser"

\* Frames, buffer, arguments and pending of P and Q are the same.
SameStacks(P, Q) ==
    /\ P.states = Q.states /\ P.buf = Q.buf /\ P.args = Q.args /\ P.pending = Q.pending

\* insert of v into a container frame F, the innermost of parser P, gave Q.
InsertedInContainer(P, Q, v) ==
    /\ last'.panic = ""
    /\ Q.states = [P.states EXCEPT ![Len(P.states)].argn = @ + 1]
    /\ Q.args = Append(P.args, v)
    /\ Q.buf = P.buf
    /\ Q.pending = P.pending + (IF statecount(P) = 1 THEN 1 ELSE 0)

\* What insert does when the innermost frame is no token; for a token that a
\* space ends without error, what it does after that.
InsertOutcome(failure) ==
    LET P == P1
        Q == P1'
        v == last'.ret
        F == TopState(P)
    IN  IF F.consumer = "tokenchar"
        THEN IF janet_parser_checkdead(P) # ""
             THEN last'.panic = failure[janet_parser_checkdead(P)] /\ SameStacks(P, Q)
             ELSE IF Q.error # NoError
             THEN last'.panic = MsgInsert /\ SameStacks(P, Q)
             ELSE /\ last'.panic = ""
                  /\ statecount(Q) < statecount(P)
                  /\ "CONTAINER" \in TopState(Q).flags
                  /\ Len(Q.args) = Len(P.args) + 2
                  /\ Q.args[Len(Q.args)] = v
                  /\ SubSeq(Q.args, 1, Len(P.args)) = P.args
                  /\ Q.buf = <<>>
                  /\ Q.pending = P.pending + (IF statecount(Q) = 1 THEN 2 ELSE 0)
        ELSE IF "CONTAINER" \in F.flags THEN InsertedInContainer(P, Q, v)
        ELSE IF "STRING" \in F.flags \/ "LONGSTRING" \in F.flags
        THEN /\ last'.panic = ""
             /\ Q.buf = P.buf \o v.bytes
             /\ Q.states = P.states /\ Q.args = P.args /\ Q.pending = P.pending
        ELSE last'.panic = MsgInsert /\ SameStacks(P, Q)

\* C15 as stated: insert succeeds only in a container, root or string frame
\* (after a pending token has been finished); in every other frame it fails
\* with "cannot insert value into parser" and changes no frame, buffer,
\* argument or pending state.
C15_InsertStated ==
    [][last'.op = "insert" =>
        InsertOutcome([m \in {MsgDead, MsgUnchecked} |-> MsgInsert])]_vars

\* C15, amended: as stated, except that with a pending token on a parser
\* that is dead or has an unchecked error the token cannot be finished and
\* insert fails with that parser-dead or unchecked-error message instead
\* (again changing no frame, buffer, argument or pending state).
C15_Insert ==
    [][last'.op = "insert" =>
        InsertOutcome([m \in {MsgDead, MsgUnchecked} |-> m])]_vars

\* insert met a pending token on a parser with an unchecked error.
C15_Witness ==
    /\ last.op = "insert" /\ last.panic = MsgUnchecked
    /\ TopState(P1).consumer = "tokenchar"

(***************************************************************************)
(* The compiler of src/core/compile.c (DstCompiler).                       *)
(*                                                                         *)
(* The scope chain is the sequence of the open scopes, the root first:     *)
(* c->scope is its last element (the empty sequence is NULL), the parent   *)
(* of a scope is the element before it and its child the element after.    *)
(* A scope holds its flags, its symbol pairs and its env-capture list; a   *)
(* slot holds its flags, index, constant and envindex.  Entries of an      *)
(* env-capture list are C indices (0-based, -1 for the parent frame).      *)
(* The bytecode buffer and the source-map buffer are sequences; an         *)
(* instruction is its opcode and operands, tagged with the mapping that    *)
(* was current when it was emitted.  The special forms (def, fn, do, ...), *)
(* the emitters of emit.c and the register allocator of regalloc.c are     *)
(* not in the source tree: the special forms are the callers of the        *)
(* operations below, an emitter appends one instruction, and the           *)
(* allocator is a busy set with a max watermark.                           *)
(***************************************************************************)
MaxScopes == 4
MaxSyms == 2
MaxErrors == 2
MaxDeadCalls == 2
MaxCompileScopes == 2
MaxCompileSyms == 1
MaxCode == 2
MaxEmitScopes == 3
MaxEmitSyms == 1
MaxSlotOps == 3
MaxSlotScopes == 2
MaxOldOps == 4
MaxPrereadOps == 3
MaxOldScopes == 3
DST_RECURSION_GUARD == 3
DST_MAX_MACRO_EXPAND == 2

DST_COMPILE_OK == "DST_COMPILE_OK"
DST_COMPILE_ERROR == "DST_COMPILE_ERROR"

NullString == [t |-> "null", fmt |-> "", arg |-> <<>>]
dst_cstring(m) == [t |-> "string", fmt |-> m, arg |-> <<>>]
dst_formatc(fmt, arg) == [t |-> "string", fmt |-> fmt, arg |-> arg]

NullFuncDef == [t |-> "null"]
NullSym == <<>>

\* A compiler and the value a call on it returns.
Returned(c, ret) == [c |-> c, ret |-> ret]

dstc_cslot(x) ==
    [flags |-> {"CONSTANT", x.t}, index |-> -1, constant |-> x, envindex |-> -1]

dstc_fopts_default == [flags |-> {}, hint |-> dstc_cslot(NilV)]

\* c.errors is history: the messages passed to dstc_error so far (the
\* first MaxErrors of them).
dstc_error_lastwins(c, m) ==
    [c EXCEPT !.errors = IF Len(@) < MaxErrors THEN Append(@, m) ELSE @,
              !.result.status = DST_COMPILE_ERROR,
              !.result.error = m]

dstc_error(c, m) ==
    LET logged == [c EXCEPT !.errors = IF Len(@) < MaxErrors THEN Append(@, m) ELSE @]
    IN  IF c.result.status = DST_COMPILE_ERROR THEN logged
        ELSE [logged EXCEPT !.result.status = DST_COMPILE_ERROR, !.result.error = m]

dstc_cerror(c, m) == dstc_error(c, dst_cstring(m))

\* The nearest function scope at or above position i of a chain (0: none).
FunctionAt(scopes, i) ==
    LET fs == {j \in 1..i : "FUNCTION" \in scopes[j].flags}
    IN  IF fs = {} THEN 0 ELSE CHOOSE j \in fs : \A k \in fs : k <= j

\* The register allocator: the busy slots and the highest slot ever used.
\* Slots 0xF0-0xFF are the reserved pool.
ReservedPool == 240..255

dstc_regalloc_init == [busy |-> {}, max |-> -1]

dstc_regalloc_clone(ra) == ra

dstc_regalloc_touch(ra, index) ==
    IF index < 0 THEN ra ELSE [ra EXCEPT !.busy = @ \cup {index}]

dstc_regalloc_free(ra, index) ==
    IF index < 0 \/ index \in ReservedPool THEN ra ELSE [ra EXCEPT !.busy = @ \ {index}]

\* The lowest index that is free and outside the pool.
LowestFree(ra) ==
    LET free == (0..(Cardinality(ra.busy) + Cardinality(ReservedPool))) \ (ra.busy \cup ReservedPool)
    IN  CHOOSE i \in free : \A k \in free : i <= k

\* The far allocator, on the allocator of the current scope.
dstc_allocfar(c) ==
    LET n == Len(c.scope)
        i == LowestFree(c.scope[n].ra)
    IN  Returned([c EXCEPT !.scope[n].ra.busy = @ \cup {i},
                           !.scope[n].ra.max = IF i > @ THEN i ELSE @], i)

dstc_farslot(c) ==
    LET a == dstc_allocfar(c)
    IN  Returned(a.c, [flags |-> {"ANY"}, index |-> a.ret, constant |-> NilV, envindex |-> -1])

dstc_freeslot(c, s) ==
    IF s.flags \cap {"CONSTANT", "REF", "NAMED"} # {} THEN c
    ELSE IF s.envindex >= 0 THEN c
    ELSE [c EXCEPT !.scope[Len(c.scope)].ra = dstc_regalloc_free(@, s.index)]

\* The field at of an instruction is history: the mapping that was current
\* when it was emitted.
dstc_emit(c, op, args) ==
    [c EXCEPT !.buffer = Append(@, [op |-> op, args |-> args, at |-> c.current_mapping]),
              !.mapbuffer = Append(@, c.current_mapping)]

dstc_nameslot(c, sym, s) ==
    LET sp == [sym |-> sym, slot |-> [s EXCEPT !.flags = @ \cup {"NAMED"}], keep |-> FALSE]
    IN  [c EXCEPT !.scope[Len(c.scope)].syms = Append(@, sp)]

dstc_scope(c, flags) ==
    LET n == Len(c.scope)
        scope == [flags |-> flags, syms |-> <<>>, envs |-> <<>>,
                  bytecode_start |-> Len(c.buffer),
                  ra |-> IF "FUNCTION" \notin flags /\ n > 0
                         THEN dstc_regalloc_clone(c.scope[n].ra)
                         ELSE dstc_regalloc_init]
    IN  [c EXCEPT !.scope = Append(@, scope)]

\* The kept pairs of a popped scope, nameless, in their order.
KeptPairs(syms) ==
    LET kept == SelectSeq(syms, LAMBDA pair : pair.keep)
    IN  [i \in 1..Len(kept) |-> [kept[i] EXCEPT !.sym = NullSym]]

\* The allocator of the parent after the slots of the kept pairs are touched.
RECURSIVE TouchKept(_, _)
TouchKept(ra, kept) ==
    IF kept = <<>> THEN ra
    ELSE TouchKept(dstc_regalloc_touch(ra, Head(kept).slot.index), Tail(kept))

dstc_popscope_notouch(c) ==
    LET n == Len(c.scope)
        oldscope == c.scope[n]
        newscope == c.scope[n - 1]
        inherits == oldscope.flags \cap {"FUNCTION", "UNUSED"} = {} /\ n > 1
        parent == [newscope EXCEPT !.flags = @ \cup (oldscope.flags \cap {"CLOSURE"}),
                                   !.ra.max = IF @ < oldscope.ra.max THEN oldscope.ra.max ELSE @,
                                   !.syms = @ \o KeptPairs(oldscope.syms)]
    IN  [c EXCEPT !.scope = IF n = 1 THEN <<>>
                            ELSE IF inherits THEN Append(SubSeq(@, 1, n - 2), parent)
                            ELSE SubSeq(@, 1, n - 1)]

dstc_popscope(c) ==
    LET n == Len(c.scope)
        oldscope == c.scope[n]
        newscope == c.scope[n - 1]
        inherits == oldscope.flags \cap {"FUNCTION", "UNUSED"} = {} /\ n > 1
        parent == [newscope EXCEPT !.flags = @ \cup (oldscope.flags \cap {"CLOSURE"}),
                                   !.ra.max = IF @ < oldscope.ra.max THEN oldscope.ra.max ELSE @,
                                   !.ra.busy = TouchKept(newscope.ra, KeptPairs(oldscope.syms)).busy,
                                   !.syms = @ \o KeptPairs(oldscope.syms)]
    IN  [c EXCEPT !.scope = IF n = 1 THEN <<>>
                            ELSE IF inherits THEN Append(SubSeq(@, 1, n - 2), parent)
                            ELSE SubSeq(@, 1, n - 1)]

\* The global environment: f is a def (a C function), v a var, e a macro,
\* every other symbol is unbound.
dst_env_resolve(sym) ==
    CASE sym = <<Ch("f")>> -> [kind |-> "DST_BINDING_DEF", value |-> [t |-> "cfunction"]]
      [] sym = <<Ch("v")>> -> [kind |-> "DST_BINDING_VAR", value |-> ArrayV(<<NilV>>)]
      [] sym = <<Ch("e")>> -> [kind |-> "DST_BINDING_MACRO", value |-> [t |-> "function"]]
      [] OTHER -> [kind |-> "DST_BINDING_NONE", value |-> NilV]

\* The search loop of dstc_resolve from scope position i upwards.
RECURSIVE resolve_search(_, _, _, _, _)
resolve_search_unusedhere(c, sym, i, foundlocal, unused) ==
    IF i = 0
    THEN [found |-> FALSE, scope |-> 0, pair |-> 0, foundlocal |-> foundlocal, unused |-> unused]
    ELSE LET scope == c.scope[i]
             u == "UNUSED" \in scope.flags
             hits == {j \in 1..Len(scope.syms) : scope.syms[j].sym = sym}
         IN  IF hits # {}
             THEN [found |-> TRUE, scope |-> i,
                   pair |-> CHOOSE j \in hits : \A k \in hits : k <= j,
                   foundlocal |-> foundlocal, unused |-> u]
             ELSE resolve_search(c, sym, i - 1,
                                 foundlocal /\ "FUNCTION" \notin scope.flags, u)

resolve_search(c, sym, i, foundlocal, unused) ==
    IF i = 0
    THEN [found |-> FALSE, scope |-> 0, pair |-> 0, foundlocal |-> foundlocal, unused |-> unused]
    ELSE LET scope == c.scope[i]
             u == unused \/ "UNUSED" \in scope.flags
             hits == {j \in 1..Len(scope.syms) : scope.syms[j].sym = sym}
         IN  IF hits # {}
             THEN [found |-> TRUE, scope |-> i,
                   pair |-> CHOOSE j \in hits : \A k \in hits : k <= j,
                   foundlocal |-> foundlocal, unused |-> u]
             ELSE resolve_search(c, sym, i - 1,
                                 foundlocal /\ "FUNCTION" \notin scope.flags, u)

\* The propagation loop of dstc_resolve from scope position i downwards.
RECURSIVE resolve_propagate(_, _, _)
resolve_propagate_nodedup(scopes, i, envindex) ==
    IF i > Len(scopes) THEN [scopes |-> scopes, envindex |-> envindex]
    ELSE IF "FUNCTION" \in scopes[i].flags
    THEN resolve_propagate([scopes EXCEPT ![i].envs = Append(@, envindex)],
                           i + 1, Len(scopes[i].envs))
    ELSE resolve_propagate(scopes, i + 1, envindex)

resolve_propagate(scopes, i, envindex) ==
    IF i > Len(scopes) THEN [scopes |-> scopes, envindex |-> envindex]
    ELSE IF "FUNCTION" \in scopes[i].flags
    THEN LET envs == scopes[i].envs
             js == {j \in 1..Len(envs) : envs[j] = envindex}
         IN  IF js # {}
             THEN resolve_propagate(scopes, i + 1, (CHOOSE j \in js : \A k \in js : j <= k) - 1)
             ELSE resolve_propagate([scopes EXCEPT ![i].envs = Append(envs, envindex)],
                                    i + 1, Len(envs))
    ELSE resolve_propagate(scopes, i + 1, envindex)

dstc_resolve(c, sym) ==
    LET s == resolve_search(c, sym, Len(c.scope), TRUE, FALSE)
        check == dst_env_resolve(sym)
    IN  IF ~s.found
        THEN CASE check.kind \in {"DST_BINDING_DEF", "DST_BINDING_MACRO"} ->
                    Returned(c, dstc_cslot(check.value))
               [] check.kind = "DST_BINDING_VAR" ->
                    Returned(c, [dstc_cslot(check.value) EXCEPT !.flags =
                        (@ \cup {"REF", "NAMED", "MUTABLE", "ANY"}) \ {"CONSTANT"}])
               [] OTHER ->
                    Returned(dstc_error(c, dst_formatc("unknown symbol %q", sym)),
                             dstc_cslot(NilV))
        ELSE LET ret == c.scope[s.scope].syms[s.pair].slot
                 f == FunctionAt(c.scope, s.scope)
                 exposed == [c.scope EXCEPT ![s.scope].syms[s.pair].keep = TRUE,
                                            ![f].flags = @ \cup {"ENV"}]
                 p == resolve_propagate(exposed, f + 1, -1)
             IN  IF ret.flags \cap {"CONSTANT", "REF"} # {} THEN Returned(c, ret)
                 ELSE IF s.unused \/ s.foundlocal
                 THEN Returned(c, [ret EXCEPT !.envindex = -1])
                 ELSE Returned([c EXCEPT !.scope = p.scopes],
                               [ret EXCEPT !.envindex = p.envindex])

\* The innermost open scope that binds sym (0: none), its last pair for
\* sym, and the function scope that owns it.
BindingScope(c, sym) ==
    LET ps == {i \in 1..Len(c.scope) :
                    \E j \in 1..Len(c.scope[i].syms) : c.scope[i].syms[j].sym = sym}
    IN  IF ps = {} THEN 0 ELSE CHOOSE i \in ps : \A k \in ps : k <= i

BindingPair(c, sym) ==
    LET syms == c.scope[BindingScope(c, sym)].syms
        js == {j \in 1..Len(syms) : syms[j].sym = sym}
    IN  CHOOSE j \in js : \A k \in js : k <= j

Owner(c, sym) == FunctionAt(c.scope, BindingScope(c, sym))

\* The function scopes nested below the owner of the binding of sym.
NestedFunctions(c, sym) ==
    {i \in (Owner(c, sym) + 1)..Len(c.scope) : "FUNCTION" \in c.scope[i].flags}

\* No dead scope lies from the scope of the use up to the scope of the
\* binding, both included.
NoDeadScopeCrossed(c, sym) ==
    \A i \in BindingScope(c, sym)..Len(c.scope) : "UNUSED" \notin c.scope[i].flags

\* The use does not lie in dead code at all.
OutsideDeadCode(c) == \A i \in 1..Len(c.scope) : "UNUSED" \notin c.scope[i].flags

\* The slot of the binding of sym.
BoundSlot(c, sym) == c.scope[BindingScope(c, sym)].syms[BindingPair(c, sym)].slot

\* A resolve of sym from the current scope crosses a function boundary to a
\* binding.
CrossesFunctions(c, sym) ==
    /\ BindingScope(c, sym) > 0
    /\ NestedFunctions(c, sym) # {}

\* c.captured, c.live and c.named are history.  c.named: the number of
\* dstc_nameslot calls so far.  c.captured: the open function scopes
\* owning a binding that a resolve from a nested function scope reached
\* with no dead scope crossed.  c.live: those for which such a resolve was
\* issued outside dead code.
Noted(c, sym, r) ==
    IF /\ CrossesFunctions(c, sym)
       /\ NoDeadScopeCrossed(c, sym)
       /\ BoundSlot(c, sym).flags \cap {"CONSTANT", "REF"} = {}
    THEN [r EXCEPT !.c.captured = @ \cup {Owner(c, sym)},
                   !.c.live = IF OutsideDeadCode(c) THEN @ \cup {Owner(c, sym)} ELSE @]
    ELSE r

\* The history of a popped scope is dropped with it.
Forget(c, n) == [c EXCEPT !.captured = @ \ {n}, !.live = @ \ {n}]

dstc_return(c, s) ==
    IF "RETURNED" \in s.flags THEN Returned(c, s)
    ELSE Returned(IF "CONSTANT" \in s.flags /\ s.constant.t = "nil"
                  THEN dstc_emit(c, "DOP_RETURN_NIL", <<>>)
                  ELSE dstc_emit(c, "DOP_RETURN", <<s>>),
                  [s EXCEPT !.flags = @ \cup {"RETURNED"}])

dstc_gettarget(c, opts) ==
    IF "HINT" \in opts.flags /\ opts.hint.envindex < 0
            /\ opts.hint.index >= 0 /\ opts.hint.index <= 255
    THEN Returned(c, opts.hint)
    ELSE LET a == dstc_allocfar(c)
         IN  Returned(a.c, [flags |-> {}, index |-> a.ret, constant |-> NilV, envindex |-> -1])

\* slots[i..] pushed three at a time, then the two or the one left over.
RECURSIVE dstc_pushslots(_, _, _)
dstc_pushslots(c, slots, i) ==
    IF i + 2 <= Len(slots)
    THEN dstc_pushslots(dstc_emit(c, "DOP_PUSH_3", <<slots[i], slots[i + 1], slots[i + 2]>>),
                        slots, i + 3)
    ELSE IF i + 1 = Len(slots) THEN dstc_emit(c, "DOP_PUSH_2", <<slots[i], slots[i + 1]>>)
    ELSE IF i = Len(slots) THEN dstc_emit(c, "DOP_PUSH", <<slots[i]>>)
    ELSE c

RECURSIVE dstc_freeslots(_, _)
dstc_freeslots(c, slots) ==
    IF slots = <<>> THEN c ELSE dstc_freeslots(dstc_freeslot(c, Head(slots)), Tail(slots))

\* No function of the environment has an optimizer.
dstc_call(c, opts, slots, fun) ==
    LET pushed == dstc_pushslots(c, slots, 1)
        target == dstc_gettarget(pushed, opts)
        called == IF "TAIL" \in opts.flags
                  THEN Returned(dstc_emit(pushed, "DOP_TAILCALL", <<fun>>),
                                [dstc_cslot(NilV) EXCEPT !.flags = {"RETURNED"}])
                  ELSE Returned(dstc_emit(target.c, "DOP_CALL", <<target.ret, fun>>),
                                target.ret)
    IN  Returned(dstc_freeslots(called.c, slots), called.ret)

dstc_maker(c, opts, slots, op) ==
    LET target == dstc_gettarget(dstc_freeslots(dstc_pushslots(c, slots, 1), slots), opts)
    IN  Returned(dstc_emit(target.c, op, <<target.ret>>), target.ret)

dstc_symbol(c, sym) ==
    IF Len(sym) > 0 /\ sym[1] # Ch("COLON")
    THEN Noted(c, sym, dstc_resolve(c, sym))
    ELSE Returned(c, dstc_cslot(SymbolV(sym)))

RECURSIVE dstc_value(_, _, _)
RECURSIVE dstc_toslots(_, _, _)

\* The slots of vals[i..], compiled from left to right.
dstc_toslots(c, vals, i) ==
    IF i > Len(vals) THEN Returned(c, <<>>)
    ELSE LET first == dstc_value(c, dstc_fopts_default, vals[i])
             rest == dstc_toslots(first.c, vals, i + 1)
         IN  Returned(rest.c, <<first.ret>> \o rest.ret)

\* The switch of dstc_value on the type of x.
Dispatch_value(c, opts, x) ==
    IF x.t = "tuple"
    THEN IF Len(x.items) = 0 THEN Returned(c, dstc_cslot(x))
         ELSE LET head == dstc_value(c, dstc_fopts_default, x.items[1])
                  slots == dstc_toslots(head.c, x.items, 2)
                  call == dstc_call(slots.c, opts, slots.ret, head.ret)
              IN  Returned(dstc_freeslot(call.c, head.ret), call.ret)
    ELSE IF x.t = "symbol" THEN dstc_symbol(c, x.bytes)
    ELSE IF x.t = "array"
    THEN LET slots == dstc_toslots(c, x.items, 1)
         IN  dstc_maker(slots.c, opts, slots.ret, "DOP_MAKE_ARRAY")
    ELSE Returned(c, dstc_cslot(x))

\* The virtual machine running the macro e on the arguments of a form:
\* (e 0) expands to the call (f), (e k) to (e k-1), and e signals an error on
\* anything else.
dst_call(macro, args) ==
    IF Len(args) = 1 /\ args[1].t = "number" /\ args[1].n >= 0
    THEN [status |-> "DST_SIGNAL_OK",
          value |-> IF args[1].n = 0 THEN TupleV(<<SymbolV(<<Ch("f")>>)>>, FALSE)
                    ELSE TupleV(<<SymbolV(<<Ch("e")>>), NumV(args[1].n - 1)>>, FALSE)]
    ELSE [status |-> "DST_SIGNAL_ERROR", value |-> StringV(<<>>)]

\* No symbol names a special form here (dstc_special of the absent specials.c
\* returns NULL).  The result says whether a macro was run, and gives the
\* compiler and the form after it.
macroexpand1(c, x) ==
    LET no(at) == [c |-> at, expanded |-> FALSE, out |-> x]
        ran(at, r) ==
            IF r.status # "DST_SIGNAL_OK"
            THEN [c |-> dstc_error(at, dst_formatc("(macro) %V", r.value)),
                  expanded |-> TRUE, out |-> x]
            ELSE [c |-> [at EXCEPT !.expansions = @ + 1], expanded |-> TRUE, out |-> r.value]
        named(at, b) ==
            IF b.kind # "DST_BINDING_MACRO" \/ b.value.t # "function" THEN no(at)
            ELSE ran(at, dst_call(b.value, Tail(x.items)))
        mapped(at) ==
            IF x.items[1].t # "symbol" THEN no(at)
            ELSE named(at, dst_env_resolve(x.items[1].bytes))
    IN  IF x.t # "tuple" THEN no(c)
        ELSE IF Len(x.items) = 0 THEN no(c)
        ELSE mapped(IF x.line > 0
                    THEN [c EXCEPT !.current_mapping = [line |-> x.line, column |-> x.column]]
                    ELSE c)

\* The macro loop of dstc_value: the compiler, the form and macroi after it.
RECURSIVE MacroLoop(_, _, _)
MacroLoop(c, x, macroi) ==
    LET step(e) == IF e.expanded THEN MacroLoop(e.c, e.out, macroi - 1)
                   ELSE [c |-> e.c, x |-> e.out, macroi |-> macroi]
    IN  IF macroi = 0 \/ c.result.status = DST_COMPILE_ERROR
        THEN [c |-> c, x |-> x, macroi |-> macroi]
        ELSE step(macroexpand1(c, x))

dstc_value_norestore(c0, opts, x) ==
    LET c == [c0 EXCEPT !.recursion_guard = @ - 1]
        returned(r) == Returned(r.c, IF "HINT" \in opts.flags THEN opts.hint ELSE r.ret)
        mapped(d) == [d.c EXCEPT !.current_mapping = c0.current_mapping]
        dispatched(d) ==
            IF d.c.result.status = DST_COMPILE_ERROR THEN Returned(d.c, dstc_cslot(NilV))
            ELSE returned(IF "TAIL" \in opts.flags THEN dstc_return(mapped(d), d.ret)
                          ELSE Returned(mapped(d), d.ret))
        expanded(m) ==
            IF m.macroi = 0
            THEN Returned(dstc_cerror(m.c, "recursed too deeply in macro expansion"),
                          dstc_cslot(NilV))
            ELSE dispatched(Dispatch_value(
                     [m.c EXCEPT !.floor = IF m.c.recursion_guard < @ THEN m.c.recursion_guard ELSE @],
                     opts, m.x))
    IN  IF c.result.status = DST_COMPILE_ERROR THEN Returned(c, dstc_cslot(NilV))
        ELSE IF c.recursion_guard <= 0
        THEN Returned(dstc_cerror(c, "recursed too deeply"), dstc_cslot(NilV))
        ELSE expanded(MacroLoop(c, x, DST_MAX_MACRO_EXPAND))

\* c.floor is history: the lowest value of the guard at which a form was
\* dispatched; c.expansions counts the macro calls that returned a form
\* since the compiler was last entered.
dstc_value(c0, opts, x) ==
    LET c == [c0 EXCEPT !.recursion_guard = @ - 1]
        returned(r) == Returned([r.c EXCEPT !.recursion_guard = @ + 1],
                                IF "HINT" \in opts.flags THEN opts.hint ELSE r.ret)
        mapped(d) == [d.c EXCEPT !.current_mapping = c0.current_mapping]
        dispatched(d) ==
            IF d.c.result.status = DST_COMPILE_ERROR THEN Returned(d.c, dstc_cslot(NilV))
            ELSE returned(IF "TAIL" \in opts.flags THEN dstc_return(mapped(d), d.ret)
                          ELSE Returned(mapped(d), d.ret))
        expanded(m) ==
            IF m.macroi = 0
            THEN Returned(dstc_cerror(m.c, "recursed too deeply in macro expansion"),
                          dstc_cslot(NilV))
            ELSE dispatched(Dispatch_value(
                     [m.c EXCEPT !.floor = IF m.c.recursion_guard < @ THEN m.c.recursion_guard ELSE @],
                     opts, m.x))
    IN  IF c.result.status = DST_COMPILE_ERROR THEN Returned(c, dstc_cslot(NilV))
        ELSE IF c.recursion_guard <= 0
        THEN Returned(dstc_cerror(c, "recursed too deeply"), dstc_cslot(NilV))
        ELSE expanded(MacroLoop(c, x, DST_MAX_MACRO_EXPAND))

\* Compile x in a scope of its own and drop the code it emitted.
dstc_throwaway_keepmap(c, opts, x) ==
    LET bufstart == Len(c.buffer)
        compiled == dstc_value(dstc_scope(c, {"UNUSED"}), opts, x)
        popped == dstc_popscope(compiled.c)
    IN  [popped EXCEPT !.buffer = SubSeq(@, 1, bufstart)]

dstc_throwaway(c, opts, x) ==
    LET bufstart == Len(c.buffer)
        mapbufstart == Len(c.mapbuffer)
        compiled == dstc_value(dstc_scope(c, {"UNUSED"}), opts, x)
        popped == dstc_popscope(compiled.c)
    IN  [popped EXCEPT !.buffer = SubSeq(@, 1, bufstart),
                       !.mapbuffer = SubSeq(@, 1, mapbufstart)]

dstc_pop_funcdef_ownenvs(c) ==
    LET scope == c.scope[Len(c.scope)]
        bytecode_length == Len(c.buffer) - scope.bytecode_start
        def == [t |-> "funcdef",
                slotcount |-> scope.ra.max + 1,
                environments |-> scope.envs,
                bytecode |-> SubSeq(c.buffer, scope.bytecode_start + 1,
                                    scope.bytecode_start + bytecode_length),
                sourcemap |-> SubSeq(c.mapbuffer, scope.bytecode_start + 1,
                                     scope.bytecode_start + bytecode_length),
                arity |-> 0,
                flags |-> IF Len(scope.envs) > 0 THEN {"NEEDSENV"} ELSE {},
                name |-> NullString]
        cut == IF bytecode_length # 0
               THEN [c EXCEPT !.buffer = SubSeq(@, 1, scope.bytecode_start),
                              !.mapbuffer = SubSeq(@, 1, scope.bytecode_start)]
               ELSE c
    IN  Returned(dstc_popscope(cut), def)

dstc_pop_funcdef_nocut(c) ==
    LET scope == c.scope[Len(c.scope)]
        bytecode_length == Len(c.buffer) - scope.bytecode_start
        def == [t |-> "funcdef",
                slotcount |-> scope.ra.max + 1,
                environments |-> scope.envs,
                bytecode |-> SubSeq(c.buffer, scope.bytecode_start + 1,
                                    scope.bytecode_start + bytecode_length),
                sourcemap |-> SubSeq(c.mapbuffer, scope.bytecode_start + 1,
                                     scope.bytecode_start + bytecode_length),
                arity |-> 0,
                flags |-> IF "ENV" \in scope.flags THEN {"NEEDSENV"} ELSE {},
                name |-> NullString]
    IN  Returned(dstc_popscope(c), def)

dstc_pop_funcdef(c) ==
    LET scope == c.scope[Len(c.scope)]
        bytecode_length == Len(c.buffer) - scope.bytecode_start
        def == [t |-> "funcdef",
                slotcount |-> scope.ra.max + 1,
                environments |-> scope.envs,
                bytecode |-> SubSeq(c.buffer, scope.bytecode_start + 1,
                                    scope.bytecode_start + bytecode_length),
                sourcemap |-> SubSeq(c.mapbuffer, scope.bytecode_start + 1,
                                     scope.bytecode_start + bytecode_length),
                arity |-> 0,
                flags |-> IF "ENV" \in scope.flags THEN {"NEEDSENV"} ELSE {},
                name |-> NullString]
        cut == IF bytecode_length # 0
               THEN [c EXCEPT !.buffer = SubSeq(@, 1, scope.bytecode_start),
                              !.mapbuffer = SubSeq(@, 1, scope.bytecode_start)]
               ELSE c
    IN  Returned(dstc_popscope(cut), def)

dstc_init ==
    [scope |-> <<>>,
     buffer |-> <<>>,
     mapbuffer |-> <<>>,
     current_mapping |-> [line |-> 0, column |-> 0],
     recursion_guard |-> DST_RECURSION_GUARD,
     result |-> [status |-> DST_COMPILE_OK, error |-> NullString, funcdef |-> NullFuncDef],
     errors |-> <<>>,
     captured |-> {},
     live |-> {},
     named |-> 0,
     expansions |-> 0,
     floor |-> DST_RECURSION_GUARD]

(***************************************************************************)
(* SpecCompile: one dst_compile call.  Between its entry and its exit the  *)
(* special forms reached through dstc_value push and pop scopes, name      *)
(* slots, resolve symbols, raise errors and compile sub-forms.             *)
(***************************************************************************)
pvars == <<parsers, heap, last, tlq, nfed, nins, ncalls, src, out, gvars>>

CompilerCall(op, arg, ret) == [op |-> op, arg |-> arg, ret |-> ret]

Top(c) == c.scope[Len(c.scope)]

\* dst_compile up to its call of dstc_value.
dst_compile_enter ==
    /\ cpc = "idle"
    /\ comp' = dstc_scope(dstc_init, {"FUNCTION", "TOP"})
    /\ cpc' = "value"
    /\ cret' = CompilerCall("dst_compile", NilV, NilV)
    /\ UNCHANGED pvars

\* dst_compile after dstc_value has returned.
dst_compile_leave_keepscope(c) ==
    IF c.result.status = DST_COMPILE_OK
    THEN LET r == dstc_pop_funcdef(c)
         IN  [r.c EXCEPT !.result.funcdef = [r.ret EXCEPT !.name = dst_cstring("_thunk")]]
    ELSE c

dst_compile_leave(c) ==
    IF c.result.status = DST_COMPILE_OK
    THEN LET r == dstc_pop_funcdef(c)
         IN  [r.c EXCEPT !.result.funcdef = [r.ret EXCEPT !.name = dst_cstring("_thunk")]]
    ELSE dstc_popscope(c)

\* The special forms have popped every scope they pushed.
CompileLeave ==
    /\ cpc = "value"
    /\ Len(comp.scope) = 1
    /\ \E c \in {dst_compile_leave(comp)} :
        /\ comp' = Forget(c, 1)
        /\ cret' = CompilerCall("dst_compile", NilV, c.result)
    /\ cpc' = "done"
    /\ UNCHANGED pvars

ScopeFlags == {{"FUNCTION"}, {}, {"UNUSED"}}

PushScope(flags, max) ==
    /\ cpc = "value"
    /\ Len(comp.scope) < max
    /\ comp' = dstc_scope(comp, flags)
    /\ cret' = CompilerCall("scope", NilV, NilV)
    /\ UNCHANGED <<cpc, pvars>>

\* A function scope is popped without a definition only on an error exit.
PopScope ==
    /\ cpc = "value"
    /\ Len(comp.scope) > 1
    /\ "FUNCTION" \in Top(comp).flags => comp.result.status = DST_COMPILE_ERROR
    /\ comp' = Forget(dstc_popscope(comp), Len(comp.scope))
    /\ cret' = CompilerCall("popscope", NilV, NilV)
    /\ UNCHANGED <<cpc, pvars>>

PopFuncdef ==
    /\ cpc = "value"
    /\ Len(comp.scope) > 1
    /\ "FUNCTION" \in Top(comp).flags
    /\ comp.result.status = DST_COMPILE_OK
    /\ \E r \in {dstc_pop_funcdef(comp)} :
        /\ comp' = Forget(r.c, Len(comp.scope))
        /\ cret' = CompilerCall("pop_funcdef", NilV, r.ret)
    /\ UNCHANGED <<cpc, pvars>>

Names == {<<Ch("x")>>, <<Ch("z")>>}

\* The slots a special form names: a fresh local or a constant.  (A
\* reference slot stands for a var of the global environment, which
\* dstc_resolve builds itself; the pairs of a scope are its locals.)
NamedSlot(c, kind) ==
    CASE kind = "local" -> dstc_farslot(c)
      [] kind = "constant" -> Returned(c, dstc_cslot(NumV(1)))

\* The bindings SpecResolve makes: x is a local, z a local or a constant.
Bindings ==
    {<<<<Ch("x")>>, "local">>, <<<<Ch("z")>>, "local">>, <<<<Ch("z")>>, "constant">>}

NameSlot(sym, kind, max) ==
    /\ cpc = "value"
    /\ comp.named < max
    /\ \E s \in {NamedSlot(comp, kind)} :
        /\ comp' = [dstc_nameslot(s.c, sym, s.ret) EXCEPT !.named = @ + 1]
        /\ cret' = CompilerCall("nameslot", NilV, NilV)
    /\ UNCHANGED <<cpc, pvars>>

Resolve(sym) ==
    /\ cpc = "value"
    /\ \E r \in {Noted(comp, sym, dstc_resolve(comp, sym))} :
        /\ comp' = r.c
        /\ cret' = CompilerCall("resolve", sym, r.ret)
    /\ UNCHANGED <<cpc, pvars>>

ErrorMessages == {dst_cstring("cannot write to constant")}

RaiseError(m) ==
    /\ cpc = "value"
    /\ comp' = dstc_error(comp, m)
    /\ cret' = CompilerCall("error", m, NilV)
    /\ UNCHANGED <<cpc, pvars>>

Symbol(name) == SymbolV(<<Ch(name)>>)

\* A form nested n tuples deep around the call (f).
RECURSIVE Nested(_)
Nested(n) == IF n = 0 THEN Symbol("f") ELSE TupleV(<<Nested(n - 1)>>, FALSE)

ValueForms ==
    {NilV, Symbol("x"), Symbol("f"), Symbol("v"), Symbol("u"),
     SymbolV(<<Ch("COLON"), Ch("a")>>),
     TupleV(<<>>, FALSE),
     TupleV(<<Symbol("f"), Symbol("x")>>, FALSE),
     Nested(DST_RECURSION_GUARD)}

ValueOpts == {dstc_fopts_default, [dstc_fopts_default EXCEPT !.flags = {"TAIL"}]}

\* After an error the guard is not restored: MaxDeadCalls bounds the calls
\* made after it, and MaxCode the instructions in the buffer before a call.
\* The count of expansions starts again with each call.
Value(opts, x) ==
    /\ cpc = "value"
    /\ comp.recursion_guard > DST_RECURSION_GUARD - MaxDeadCalls
    /\ Len(comp.buffer) < MaxCode
    /\ \E r \in {dstc_value([comp EXCEPT !.expansions = 0], opts, x)} :
        /\ comp' = r.c
        /\ cret' = CompilerCall("value", [opts |-> opts, x |-> x], r.ret)
    /\ UNCHANGED <<cpc, pvars>>

NextCompile ==
    \/ dst_compile_enter
    \/ CompileLeave
    \/ \E flags \in ScopeFlags : PushScope(flags, MaxCompileScopes)
    \/ PopScope
    \/ PopFuncdef
    \/ NameSlot(<<Ch("x")>>, "local", MaxCompileSyms)
    \/ \E m \in ErrorMessages : RaiseError(m)
    \/ \E opts \in ValueOpts : \E x \in ValueForms : Value(opts, x)

SpecCompile == Init /\ [][NextCompile]_vars

(***************************************************************************)
(* SpecResolve: the scope operations of one dst_compile call that raises   *)
(* no error: scopes of every kind, bindings of every kind, and resolves.   *)
(***************************************************************************)
NextResolve ==
    \/ dst_compile_enter
    \/ CompileLeave
    \/ \E flags \in ScopeFlags : PushScope(flags, MaxScopes)
    \/ PopScope
    \/ PopFuncdef
    \/ \E b \in Bindings : NameSlot(b[1], b[2], MaxSyms)
    \/ \E sym \in Names : Resolve(sym)

SpecResolve == Init /\ [][NextResolve]_vars

(***************************************************************************)
(* Claims on SpecCompile.                                                  *)
(***************************************************************************)
Compiling == cpc = "value"

Failed(c) == c.result.status = DST_COMPILE_ERROR

\* C17: once the result status is error, the stored error message is never
\* replaced (it stays the first message passed to dstc_error), and every
\* later dstc_value call returns the nil constant slot without dispatching
\* on its argument: whatever the form, no scope changes and no error is
\* raised.
C17_StickyError ==
    [][Compiling /\ Failed(comp) =>
        /\ Failed(comp')
        /\ comp'.result.error = comp.result.error
        /\ comp'.result.error = comp'.errors[1]
        /\ cret'.op = "value" =>
            /\ cret'.ret = dstc_cslot(NilV)
            /\ comp'.scope = comp.scope
            /\ comp'.errors = comp.errors
            /\ comp'.result = comp.result]_vars

\* A second error with another message has been raised and ignored, and then
\* dstc_value was called on a symbol that is bound in the open scopes.
C17_Witness ==
    /\ Compiling
    /\ Failed(comp)
    /\ Len(comp.errors) = 2
    /\ comp.errors[2] # comp.errors[1]
    /\ comp.result.error = comp.errors[1]
    /\ cret.op = "value"
    /\ cret.arg.x = Symbol("x")
    /\ BindingScope(comp, <<Ch("x")>>) > 0
    /\ cret.ret = dstc_cslot(NilV)

\* C18: dst_compile never exposes a partial result: with status error the
\* function definition is null and the error message is set; with status ok
\* the result holds a function definition of arity 0 named _thunk and no
\* error; in both cases no scope is left open.
C18_CompileResult ==
    cpc = "done" =>
        /\ cret.op = "dst_compile"
        /\ cret.ret = comp.result
        /\ comp.result.status \in {DST_COMPILE_OK, DST_COMPILE_ERROR}
        /\ Failed(comp) =>
            /\ comp.result.funcdef = NullFuncDef
            /\ comp.result.error # NullString
        /\ ~Failed(comp) =>
            /\ comp.result.funcdef # NullFuncDef
            /\ comp.result.funcdef.arity = 0
            /\ comp.result.funcdef.name = dst_cstring("_thunk")
            /\ comp.result.error = NullString
        /\ comp.scope = <<>>

\* A compile that failed has returned.
C18_Witness ==
    /\ cpc = "done"
    /\ Failed(comp)
    /\ comp.result.funcdef = NullFuncDef
    /\ comp.scope = <<>>

(***************************************************************************)
(* Claims on SpecResolve.                                                  *)
(***************************************************************************)
NoDuplicate(envs) == \A a, b \in 1..Len(envs) : envs[a] = envs[b] => a = b

IsPrefix(s, t) == Len(s) <= Len(t) /\ SubSeq(t, 1, Len(s)) = s

EnvLists(c) == [i \in 1..Len(c.scope) |-> c.scope[i].envs]

\* The index a chain of capture entries ends with: from position i down,
\* every function scope must list the index found in the function scope
\* above it (-1 for the first); -2 if an entry is missing.
RECURSIVE ChainIndex(_, _, _)
ChainIndex(scopes, i, envindex) ==
    IF i > Len(scopes) THEN envindex
    ELSE IF "FUNCTION" \notin scopes[i].flags THEN ChainIndex(scopes, i + 1, envindex)
    ELSE LET js == {j \in 1..Len(scopes[i].envs) : scopes[i].envs[j] = envindex}
         IN  IF js = {} THEN -2
             ELSE ChainIndex(scopes, i + 1, (CHOOSE j \in js : TRUE) - 1)

\* C19: when a resolve issued inside nested function scopes F1..Fk (k >= 1,
\* no dead scope crossed) hits a non-constant binding owned by an enclosing
\* function F, then afterwards the binding has keep set, F1 lists -1 at
\* some index e1, each F(i+1) lists e(i) at e(i+1), and the returned slot
\* is the binding's slot with envindex e(k) >= 0; if the chain was there
\* already no list changes, otherwise lists only grow at their end; and no
\* env-capture list ever holds a duplicate.
C19_CaptureChain ==
    [][/\ cpc' = "value" =>
            \A i \in 1..Len(comp'.scope) : NoDuplicate(comp'.scope[i].envs)
       /\ /\ Compiling
          /\ cret'.op = "resolve"
          /\ CrossesFunctions(comp, cret'.arg)
          /\ NoDeadScopeCrossed(comp, cret'.arg)
          /\ "CONSTANT" \notin BoundSlot(comp, cret'.arg).flags
          => LET sym == cret'.arg
                 f == Owner(comp, sym)
                 e == ChainIndex(comp'.scope, f + 1, -1)
             IN  /\ comp'.scope[BindingScope(comp, sym)].syms[BindingPair(comp, sym)].keep
                 /\ e >= 0
                 /\ cret'.ret = [BoundSlot(comp, sym) EXCEPT !.envindex = e]
                 /\ ChainIndex(comp.scope, f + 1, -1) >= 0 => EnvLists(comp') = EnvLists(comp)
                 /\ \A i \in 1..Len(comp.scope) :
                        IsPrefix(comp.scope[i].envs, comp'.scope[i].envs)]_vars

\* A resolve across two function boundaries has returned an upvalue slot
\* whose index is not 0: the innermost function already captured from its
\* own parent.
C19_Witness ==
    /\ Compiling
    /\ cret.op = "resolve"
    /\ CrossesFunctions(comp, cret.arg)
    /\ Cardinality(NestedFunctions(comp, cret.arg)) >= 2
    /\ cret.ret.envindex = 1
    /\ cret.ret.envindex = ChainIndex(comp.scope, Owner(comp, cret.arg) + 1, -1)
    /\ comp.scope[BindingScope(comp, cret.arg)].syms[BindingPair(comp, cret.arg)].keep

DeadScopesLeft(c, sym) ==
    {u \in (BindingScope(c, sym) + 1)..Len(c.scope) : "UNUSED" \in c.scope[u].flags}

\* C21: a resolve issued from inside an unused scope that hits a binding
\* outside that scope returns the binding's slot with envindex -1 and leaves
\* every scope as it was (keep flags, needs-env flags, env-capture lists),
\* whether or not function boundaries lie between the use and the binding.
C21_DeadResolve ==
    [][/\ Compiling
       /\ cret'.op = "resolve"
       /\ BindingScope(comp, cret'.arg) > 0
       /\ DeadScopesLeft(comp, cret'.arg) # {}
       => /\ cret'.ret = [BoundSlot(comp, cret'.arg) EXCEPT !.envindex = -1]
          /\ comp'.scope = comp.scope]_vars

\* A resolve from dead code has crossed a function boundary to a local
\* binding that nothing has captured.
C21_Witness ==
    /\ Compiling
    /\ cret.op = "resolve"
    /\ CrossesFunctions(comp, cret.arg)
    /\ DeadScopesLeft(comp, cret.arg) # {}
    /\ "CONSTANT" \notin BoundSlot(comp, cret.arg).flags
    /\ cret.ret.envindex = -1
    /\ ~comp.scope[BindingScope(comp, cret.arg)].syms[BindingPair(comp, cret.arg)].keep
    /\ "ENV" \notin comp.scope[Owner(comp, cret.arg)].flags
    /\ \A i \in 1..Len(comp.scope) : comp.scope[i].envs = <<>>

(***************************************************************************)
(* SpecEmit: the bytecode buffer of one dst_compile call.  The special     *)
(* forms emit instructions, compile sub-forms and dead code, and nest      *)
(* function scopes.                                                        *)
(***************************************************************************)
EmitLines == {1, 2}

\* A special form at source line `line` emits one instruction: dstc_value
\* saves the current mapping, macroexpand1 moves it to the line of the
\* form, and dstc_value restores it when the form has compiled.
Emit(line) ==
    /\ cpc = "value"
    /\ comp.result.status = DST_COMPILE_OK
    /\ Len(comp.buffer) < MaxCode
    /\ LET at == [comp EXCEPT !.current_mapping = [line |-> line, column |-> 0]]
       IN  comp' = [dstc_emit(at, "DOP_LOAD_NIL", <<>>) EXCEPT
                        !.current_mapping = comp.current_mapping]
    /\ cret' = CompilerCall("emit", line, NilV)
    /\ UNCHANGED <<cpc, pvars>>

\* The forms compiled as live and as dead code: a bound or unbound symbol, a
\* call, and a call with an unknown argument.
EmitForms ==
    {Symbol("x"),
     TupleV(<<Symbol("f"), Symbol("x")>>, FALSE),
     TupleV(<<Symbol("f"), Symbol("u")>>, FALSE)}

Throwaway(opts, x) ==
    /\ cpc = "value"
    /\ comp.recursion_guard > DST_RECURSION_GUARD - MaxDeadCalls
    /\ comp' = dstc_throwaway(comp, opts, x)
    /\ cret' = CompilerCall("throwaway", [opts |-> opts, x |-> x], NilV)
    /\ UNCHANGED <<cpc, pvars>>

NextEmit ==
    \/ dst_compile_enter
    \/ CompileLeave
    \/ \E flags \in ScopeFlags : PushScope(flags, MaxEmitScopes)
    \/ PopScope
    \/ PopFuncdef
    \/ NameSlot(<<Ch("x")>>, "local", MaxEmitSyms)
    \/ \E line \in EmitLines : Emit(line)
    \/ \E opts \in ValueOpts : \E x \in EmitForms : Value(opts, x)
    \/ \E opts \in ValueOpts : \E x \in EmitForms : Throwaway(opts, x)

SpecEmit == Init /\ [][NextEmit]_vars

(***************************************************************************)
(* Claims on SpecEmit.                                                     *)
(***************************************************************************)
\* What compiling x as live code in a fresh unused scope does.
DeadCompile(c, opts, x) == dstc_value(dstc_scope(c, {"UNUSED"}), opts, x).c

\* C22: dstc_throwaway(x) leaves the bytecode buffer and the source-map
\* buffer as they were at entry (their lengths and their contents) and the
\* scope chain as it was (the current scope, its register allocator's busy
\* set and max watermark), while an error raised while compiling x stays
\* recorded in the result.
C22_Throwaway ==
    [][Compiling /\ cret'.op = "throwaway" =>
        /\ comp'.buffer = comp.buffer
        /\ comp'.mapbuffer = comp.mapbuffer
        /\ Len(comp'.scope) = Len(comp.scope)
        /\ Top(comp').ra = Top(comp).ra
        /\ comp'.scope = comp.scope
        /\ comp'.errors = DeadCompile(comp, cret'.arg.opts, cret'.arg.x).errors
        /\ comp'.result = DeadCompile(comp, cret'.arg.opts, cret'.arg.x).result]_vars

\* Dead code that emitted instructions, took a slot and raised an error has
\* been thrown away behind live code.
C22_Witness ==
    /\ Compiling
    /\ cret.op = "throwaway"
    /\ cret.arg.x = TupleV(<<Symbol("f"), Symbol("u")>>, FALSE)
    /\ Len(comp.buffer) > 0
    /\ Len(comp.buffer) = Len(comp.mapbuffer)
    /\ Top(comp).ra.busy = {}
    /\ Failed(comp)
    /\ comp.errors = <<dst_formatc("unknown symbol %q", <<Ch("u")>>)>>

(***************************************************************************)
(* The older compiler of src/compiler/compile.c.                           *)
(*                                                                         *)
(* Its scopes are a vector (c->scopes) instead of a linked chain: the same *)
(* sequence, the current scope last, kept in the field scope so that the   *)
(* operations whose code is the same in both files (dstc_error,            *)
(* dstc_cslot, dstc_nameslot, dstc_resolve, dstc_emit) apply to both.  A   *)
(* scope holds its slot bit vector (slots: 32-bit blocks, a block being    *)
(* the set of its set bits) and smax instead of an allocator.  1 << 31 is  *)
(* bit 31.                                                                 *)
(***************************************************************************)
FullBlock == 0..31

\* 0xFFFF0000: the block of the indices 224-255 starts with 0xF0-0xFF set.
PoolBlock == 16..31

\* dst_v_push(scope->slots, len == 7 ? 0xFFFF0000 : 0)
ExtendSlots(slots) == Append(slots, IF Len(slots) = 7 THEN PoolBlock ELSE {})

SetBit(slots, index) ==
    [slots EXCEPT ![(index \div 32) + 1] = @ \cup {index % 32}]

ClearBit(slots, index) ==
    [slots EXCEPT ![(index \div 32) + 1] = @ \ {index % 32}]

LowestIn(S) == CHOOSE i \in S : \A k \in S : i <= k

dstc_lsloti_nomax(c) ==
    LET n == Len(c.scope)
        len == Len(c.scope[n].slots)
        open == {i \in 1..len : c.scope[n].slots[i] # FullBlock}
        set(slots, biti) == Returned([c EXCEPT !.scope[n].slots = SetBit(slots, biti)], biti)
        found(i) == set(c.scope[n].slots, (i - 1) * 32 + LowestIn(FullBlock \ c.scope[n].slots[i]))
    IN  IF open = {} THEN set(ExtendSlots(c.scope[n].slots), len * 32)
        ELSE found(LowestIn(open))

dstc_lsloti(c) ==
    LET n == Len(c.scope)
        len == Len(c.scope[n].slots)
        open == {i \in 1..len : c.scope[n].slots[i] # FullBlock}
        set(slots, biti) == Returned([c EXCEPT !.scope[n].slots = SetBit(slots, biti),
                                               !.scope[n].smax = IF biti > @ THEN biti ELSE @], biti)
        found(i) == set(c.scope[n].slots, (i - 1) * 32 + LowestIn(FullBlock \ c.scope[n].slots[i]))
    IN  IF open = {} THEN set(ExtendSlots(c.scope[n].slots), len * 32)
        ELSE found(LowestIn(open))

RECURSIVE ExtendTo(_, _)
ExtendTo(slots, block) ==
    IF Len(slots) <= block THEN ExtendTo(ExtendSlots(slots), block) ELSE slots

slotalloci(c, index) ==
    IF index < 0 THEN c
    ELSE [c EXCEPT !.scope[Len(c.scope)].slots = SetBit(ExtendTo(@, index \div 32), index)]

dstc_sfreei_nopool(c, index) ==
    LET n == Len(c.scope)
    IN  IF index >= 0 /\ index < Len(c.scope[n].slots) * 32
        THEN [c EXCEPT !.scope[n].slots = ClearBit(@, index)]
        ELSE c

dstc_sfreei(c, index) ==
    LET n == Len(c.scope)
    IN  IF index >= 0 /\ (index < 240 \/ index > 255) /\ index < Len(c.scope[n].slots) * 32
        THEN [c EXCEPT !.scope[n].slots = ClearBit(@, index)]
        ELSE c

dstc_lslotn(c, max, nth) ==
    LET near(a) == IF a.ret > max THEN Returned(dstc_sfreei(a.c, a.ret), 240 + nth) ELSE a
    IN  near(dstc_lsloti(c))

compiler_dstc_freeslot(c, s) ==
    IF s.flags \cap {"CONSTANT", "REF", "NAMED"} # {} THEN c
    ELSE IF s.envindex >= 0 THEN c
    ELSE dstc_sfreei(c, s.index)

compiler_dstc_scope(c, flags) ==
    LET n == Len(c.scope)
        inherit == "FUNCTION" \notin flags /\ n > 0
        scope == [flags |-> flags, syms |-> <<>>, envs |-> <<>>, consts |-> <<>>,
                  slots |-> IF inherit THEN c.scope[n].slots ELSE <<>>,
                  smax |-> IF inherit THEN c.scope[n].smax ELSE -1,
                  bytecode_start |-> Len(c.buffer)]
    IN  [c EXCEPT !.scope = Append(@, scope)]

\* slotalloci on the new current scope, for the kept pairs in their order.
RECURSIVE AllocKept(_, _)
AllocKept(c, kept) ==
    IF kept = <<>> THEN c ELSE AllocKept(slotalloci(c, Head(kept).slot.index), Tail(kept))

compiler_dstc_popscope(c) ==
    LET oldcount == Len(c.scope)
        scope == c.scope[oldcount]
        popped == [c EXCEPT !.scope = SubSeq(@, 1, oldcount - 1)]
        kept == KeptPairs(scope.syms)
        merged == [popped EXCEPT !.scope[oldcount - 1].smax = IF @ < scope.smax THEN scope.smax ELSE @,
                                 !.scope[oldcount - 1].syms = @ \o kept]
    IN  IF scope.flags \cap {"FUNCTION", "UNUSED"} = {} /\ oldcount > 1
        THEN AllocKept(merged, kept)
        ELSE popped

compiler_dstc_popscope_keepslot(c, retslot) ==
    LET popped == compiler_dstc_popscope(c)
    IN  IF retslot.envindex < 0 /\ retslot.index >= 0
        THEN slotalloci(popped, retslot.index)
        ELSE popped

compiler_dstc_init ==
    [scope |-> <<>>,
     buffer |-> <<>>,
     mapbuffer |-> <<>>,
     current_mapping |-> [line |-> 0, column |-> 0],
     recursion_guard |-> DST_RECURSION_GUARD,
     result |-> [status |-> DST_COMPILE_OK, error |-> NullString, funcdef |-> NullFuncDef],
     errors |-> <<>>,
     params |-> 0,
     declared |-> 0,
     carried |-> 0,
     ops |-> 0,
     ast_stack |-> <<>>]

(***************************************************************************)
(* Instructions of the older compiler.  An instruction word is kept as its *)
(* opcode and its operand fields, each field with what it addresses: a     *)
(* local slot, an immediate, a constant index, or the environment and      *)
(* index of an upvalue.  A field holds the bits the shifts and ors of the  *)
(* code leave in it.                                                       *)
(***************************************************************************)
SlotOp(index) == [k |-> "slot", v |-> index]
ImmOp(i) == [k |-> "imm", v |-> i % 65536]
ConstOp(cindex) == [k |-> "const", v |-> cindex % 65536]
EnvOp(envindex) == [k |-> "env", v |-> envindex % 256]
\* (uint32_t)(s.index) << 24 | (uint32_t)(s.envindex) << 16: an envindex of -1
\* fills the index byte with ones.
UpOp(index, envindex) == [k |-> "up", v |-> IF envindex < 0 THEN 255 ELSE index % 256]

\* The function scope the constants go to: the nearest one, else the first.
ConstScope(c) ==
    LET fs == {i \in 1..Len(c.scope) : "FUNCTION" \in c.scope[i].flags}
    IN  IF fs = {} THEN 1 ELSE CHOOSE i \in fs : \A k \in fs : k <= i

\* Tuples are equal when their items are, whatever their source positions;
\* symbols are interned, so equal bytes are one object.  The other types
\* without a case of their own are compared by address: a value of such a
\* type stands for one object.
RECURSIVE dst_equals(_, _)
dst_equals(x, y) ==
    IF x.t # y.t THEN FALSE
    ELSE IF x.t = "tuple"
    THEN /\ Len(x.items) = Len(y.items)
         /\ \A i \in 1..Len(x.items) : dst_equals(x.items[i], y.items[i])
    ELSE x = y

dstc_const_nodedup(c, x) ==
    LET n == ConstScope(c)
        len == Len(c.scope[n].consts)
    IN  IF len >= 65535 THEN Returned(dstc_cerror(c, "too many constants"), 0)
        ELSE Returned([c EXCEPT !.scope[n].consts = Append(@, x)], len)

dstc_const_nocap(c, x) ==
    LET n == ConstScope(c)
        len == Len(c.scope[n].consts)
        same == {i \in 1..len : dst_equals(x, c.scope[n].consts[i])}
    IN  IF same # {} THEN Returned(c, LowestIn(same) - 1)
        ELSE Returned([c EXCEPT !.scope[n].consts = Append(@, x)], len)

dstc_const(c, x) ==
    LET n == ConstScope(c)
        len == Len(c.scope[n].consts)
        same == {i \in 1..len : dst_equals(x, c.scope[n].consts[i])}
    IN  IF same # {} THEN Returned(c, LowestIn(same) - 1)
        ELSE IF len >= 65535 THEN Returned(dstc_cerror(c, "too many constants"), 0)
        ELSE Returned([c EXCEPT !.scope[n].consts = Append(@, x)], len)

\* The numbers of the load opcodes (the opcode table is not part of the
\* sources at hand; every opcode is one byte).
Opcode ==
    [DOP_LOAD_NIL |-> 11, DOP_LOAD_TRUE |-> 12, DOP_LOAD_FALSE |-> 13,
     DOP_LOAD_INTEGER |-> 14, DOP_LOAD_CONSTANT |-> 15]

\* Instruction words of 32 bits, kept as two halves of 16 bits.
RECURSIVE Or16(_, _)
Or16(a, b) ==
    IF a = 0 THEN b
    ELSE IF b = 0 THEN a
    ELSE (IF a % 2 = 1 \/ b % 2 = 1 THEN 1 ELSE 0) + 2 * Or16(a \div 2, b \div 2)

\* x << n, for n <= 16, in two's complement.
Shl32(x, n) ==
    [hi |-> ((x % 65536) * Pow2(n)) \div 65536, lo |-> ((x % 65536) * Pow2(n)) % 65536]

Or32(v, w) == [hi |-> Or16(v.hi, w.hi), lo |-> Or16(v.lo, w.lo)]

LoadWord_smear(op, dest, high) ==
    Or32(Or32([hi |-> high % 65536, lo |-> (high \div 65536) % 65536], Shl32(dest, 8)),
         [hi |-> 0, lo |-> Opcode[op]])

\* (high << 16) | (dest << 8) | op
LoadWord(op, dest, high) ==
    Or32(Or32([hi |-> high % 65536, lo |-> 0], Shl32(dest, 8)), [hi |-> 0, lo |-> Opcode[op]])

\* The slot of an emitted word is its second byte, the immediate or the
\* constant index its high half.
dstc_loadconst(c, k, dest) ==
    LET emitted(at, op, word, operand) ==
            [dstc_emit(at, op, <<SlotOp(word.lo \div 256)>> \o operand) EXCEPT
                !.buffer[Len(at.buffer) + 1] =
                    [op |-> op, args |-> @.args, at |-> @.at, word |-> word]]
        load(op, at) == emitted(at, op, LoadWord(op, dest, 0), <<>>)
        high(op, at, word) ==
            emitted(at, op, word,
                    <<IF op = "DOP_LOAD_INTEGER" THEN ImmOp(word.hi) ELSE ConstOp(word.hi)>>)
        constant(a) == high("DOP_LOAD_CONSTANT", a.c, LoadWord("DOP_LOAD_CONSTANT", dest, a.ret))
    IN  CASE k.t = "nil" -> load("DOP_LOAD_NIL", c)
          [] k.t = "boolean" /\ k.b -> load("DOP_LOAD_TRUE", c)
          [] k.t = "boolean" /\ ~k.b -> load("DOP_LOAD_FALSE", c)
          [] k.t = "number" /\ k.n <= 32767 /\ k.n >= -32768 ->
                high("DOP_LOAD_INTEGER", c, LoadWord("DOP_LOAD_INTEGER", dest, k.n))
          [] OTHER -> constant(dstc_const(c, k))

dstc_preread(c, max0, nth, s) ==
    LET max == IF "REF" \in s.flags THEN 255 ELSE max0
        deref(loaded, ret) ==
            Returned(IF "REF" \in s.flags
                     THEN dstc_emit(loaded, "DOP_GET_INDEX", <<SlotOp(ret), SlotOp(ret)>>)
                     ELSE loaded, ret)
        constant(a) == deref(dstc_loadconst(a.c, s.constant, a.ret), a.ret)
        upvalue(a) == Returned(dstc_emit(a.c, "DOP_LOAD_UPVALUE",
                                   <<SlotOp(a.ret), EnvOp(s.envindex), UpOp(s.index, s.envindex)>>), a.ret)
        far(a) == Returned(dstc_emit(a.c, "DOP_MOVE_NEAR", <<SlotOp(a.ret), SlotOp(s.index)>>), a.ret)
    IN  IF s.flags \cap {"CONSTANT", "REF"} # {} THEN constant(dstc_lslotn(c, 255, nth))
        ELSE IF s.envindex >= 0 \/ s.index > max THEN upvalue(dstc_lslotn(c, max, nth))
        ELSE IF s.index > max THEN far(dstc_lslotn(c, max, nth))
        ELSE Returned(c, s.index)

dstc_postread(c, s, index) ==
    IF index # s.index \/ s.envindex >= 0 \/ "CONSTANT" \in s.flags
    THEN dstc_sfreei(c, index)
    ELSE c

dstc_sequal(lhs, rhs) ==
    /\ lhs.flags = rhs.flags
    /\ lhs.index = rhs.index
    /\ lhs.envindex = rhs.envindex
    /\ lhs.flags \cap {"REF", "CONSTANT"} # {} => dst_equals(lhs.constant, rhs.constant)

dstc_copy_keepref(c, dest, from) ==
    LET near(at) ==
            IF "CONSTANT" \in from.flags THEN dstc_loadconst(at, from.constant, dest.index)
            ELSE IF "REF" \in from.flags
            THEN dstc_emit(dstc_loadconst(at, from.constant, dest.index), "DOP_GET_INDEX",
                           <<SlotOp(dest.index), SlotOp(dest.index)>>)
            ELSE IF from.envindex >= 0
            THEN dstc_emit(at, "DOP_LOAD_UPVALUE",
                           <<SlotOp(dest.index), EnvOp(from.envindex), UpOp(from.index, from.envindex)>>)
            ELSE dstc_emit(at, "DOP_MOVE_NEAR", <<SlotOp(dest.index), SlotOp(from.index)>>)
        moved(at, srclocal, destlocal) ==
            IF srclocal # destlocal
            THEN dstc_emit(at, "DOP_MOVE_NEAR", <<SlotOp(destlocal), SlotOp(srclocal)>>)
            ELSE at
        cleanup(at, srclocal) == dstc_postread(at, from, srclocal)
        put(at, srclocal, reflocal) ==
            cleanup(dstc_emit(at, "DOP_PUT_INDEX", <<SlotOp(reflocal), SlotOp(srclocal)>>),
                    srclocal)
        loaded(k, srclocal, reflocal) ==
            put(dstc_emit(k.c, "DOP_LOAD_CONSTANT", <<SlotOp(reflocal), ConstOp(k.ret)>>),
                srclocal, reflocal)
        ref(r, srclocal) == loaded(dstc_const(r.c, dest.constant), srclocal, r.ret)
        far(a) ==
            IF "REF" \in dest.flags THEN ref(dstc_lslotn(a.c, 255, 2), a.ret)
            ELSE IF dest.envindex >= 0
            THEN cleanup(dstc_emit(a.c, "DOP_SET_UPVALUE",
                                   <<SlotOp(a.ret), EnvOp(dest.envindex),
                                     UpOp(dest.index, dest.envindex)>>), a.ret)
            ELSE IF dest.index > 255
            THEN cleanup(dstc_emit(a.c, "DOP_MOVE_FAR", <<SlotOp(a.ret), SlotOp(dest.index)>>),
                         a.ret)
            ELSE cleanup(moved(a.c, a.ret, dest.index), a.ret)
    IN  IF "CONSTANT" \in dest.flags THEN dstc_cerror(c, "cannot write to constant")
        ELSE IF dstc_sequal(dest, from) THEN c
        ELSE IF dest.envindex < 0 /\ dest.index >= 0 /\ dest.index <= 255 THEN near(c)
        ELSE far(dstc_preread(c, 255, 1, from))

\* Moves the slot `from` to dest: from -> srclocal -> destlocal -> dest.
dstc_copy(c, dest, from) ==
    LET near(at) ==
            IF "CONSTANT" \in from.flags THEN dstc_loadconst(at, from.constant, dest.index)
            ELSE IF "REF" \in from.flags
            THEN dstc_emit(dstc_loadconst(at, from.constant, dest.index), "DOP_GET_INDEX",
                           <<SlotOp(dest.index), SlotOp(dest.index)>>)
            ELSE IF from.envindex >= 0
            THEN dstc_emit(at, "DOP_LOAD_UPVALUE",
                           <<SlotOp(dest.index), EnvOp(from.envindex), UpOp(from.index, from.envindex)>>)
            ELSE dstc_emit(at, "DOP_MOVE_NEAR", <<SlotOp(dest.index), SlotOp(from.index)>>)
        moved(at, srclocal, destlocal) ==
            IF srclocal # destlocal
            THEN dstc_emit(at, "DOP_MOVE_NEAR", <<SlotOp(destlocal), SlotOp(srclocal)>>)
            ELSE at
        cleanup(at, srclocal) == dstc_postread(at, from, srclocal)
        put(at, srclocal, reflocal) ==
            cleanup(dstc_sfreei(dstc_emit(at, "DOP_PUT_INDEX",
                                          <<SlotOp(reflocal), SlotOp(srclocal)>>), reflocal),
                    srclocal)
        loaded(k, srclocal, reflocal) ==
            put(dstc_emit(k.c, "DOP_LOAD_CONSTANT", <<SlotOp(reflocal), ConstOp(k.ret)>>),
                srclocal, reflocal)
        ref(r, srclocal) == loaded(dstc_const(r.c, dest.constant), srclocal, r.ret)
        far(a) ==
            IF "REF" \in dest.flags THEN ref(dstc_lslotn(a.c, 255, 2), a.ret)
            ELSE IF dest.envindex >= 0
            THEN cleanup(dstc_emit(a.c, "DOP_SET_UPVALUE",
                                   <<SlotOp(a.ret), EnvOp(dest.envindex),
                                     UpOp(dest.index, dest.envindex)>>), a.ret)
            ELSE IF dest.index > 255
            THEN cleanup(dstc_emit(a.c, "DOP_MOVE_FAR", <<SlotOp(a.ret), SlotOp(dest.index)>>),
                         a.ret)
            ELSE cleanup(moved(a.c, a.ret, dest.index), a.ret)
    IN  IF "CONSTANT" \in dest.flags THEN dstc_cerror(c, "cannot write to constant")
        ELSE IF dstc_sequal(dest, from) THEN c
        ELSE IF dest.envindex < 0 /\ dest.index >= 0 /\ dest.index <= 255 THEN near(c)
        ELSE far(dstc_preread(c, 255, 1, from))

compiler_dstc_return_again(c, s) ==
    LET read(ls) == dstc_postread(dstc_emit(ls.c, "DOP_RETURN", <<SlotOp(ls.ret)>>), s, ls.ret)
    IN  Returned(IF "CONSTANT" \in s.flags /\ s.constant.t = "nil"
                 THEN dstc_emit(c, "DOP_RETURN_NIL", <<>>)
                 ELSE read(dstc_preread(c, 65535, 1, s)),
                 [s EXCEPT !.flags = @ \cup {"RETURNED"}])

compiler_dstc_return(c, s) ==
    LET read(ls) == dstc_postread(dstc_emit(ls.c, "DOP_RETURN", <<SlotOp(ls.ret)>>), s, ls.ret)
    IN  IF "RETURNED" \in s.flags THEN Returned(c, s)
        ELSE Returned(IF "CONSTANT" \in s.flags /\ s.constant.t = "nil"
                      THEN dstc_emit(c, "DOP_RETURN_NIL", <<>>)
                      ELSE read(dstc_preread(c, 65535, 1, s)),
                      [s EXCEPT !.flags = @ \cup {"RETURNED"}])

compiler_dstc_gettarget(c, opts) ==
    LET fresh(a) == Returned(a.c, [flags |-> {}, index |-> a.ret, constant |-> NilV, envindex |-> -1])
    IN  IF "HINT" \in opts.flags /\ opts.hint.envindex < 0
           /\ opts.hint.index >= 0 /\ opts.hint.index <= 255
        THEN Returned(c, opts.hint)
        ELSE fresh(dstc_lslotn(c, 255, 4))

RECURSIVE compiler_dstc_pushslots(_, _, _)
compiler_dstc_pushslots(c, slots, i) ==
    LET push3(ls1, ls2, ls3) ==
            dstc_postread(dstc_postread(dstc_postread(
                dstc_emit(ls3.c, "DOP_PUSH_3", <<SlotOp(ls1.ret), SlotOp(ls2.ret), SlotOp(ls3.ret)>>),
                slots[i + 1], ls1.ret), slots[i + 2], ls2.ret), slots[i + 3], ls3.ret)
        read3(ls1, ls2) == push3(ls1, ls2, dstc_preread(ls2.c, 255, 3, slots[i + 3]))
        read2(ls1) == read3(ls1, dstc_preread(ls1.c, 255, 2, slots[i + 2]))
        push2(ls1, ls2) ==
            dstc_postread(dstc_postread(
                dstc_emit(ls2.c, "DOP_PUSH_2", <<SlotOp(ls1.ret), SlotOp(ls2.ret)>>),
                slots[i + 1], ls1.ret), slots[i + 2], ls2.ret)
        last2(ls1) == push2(ls1, dstc_preread(ls1.c, 65535, 2, slots[i + 2]))
        push1(ls1) == dstc_postread(dstc_emit(ls1.c, "DOP_PUSH", <<SlotOp(ls1.ret)>>), slots[i + 1], ls1.ret)
    IN  IF i < Len(slots) - 2
        THEN compiler_dstc_pushslots(read2(dstc_preread(c, 255, 1, slots[i + 1])), slots, i + 3)
        ELSE IF i = Len(slots) - 2 THEN last2(dstc_preread(c, 255, 1, slots[i + 1]))
        ELSE IF i = Len(slots) - 1 THEN push1(dstc_preread(c, 16777215, 1, slots[i + 1]))
        ELSE c

RECURSIVE compiler_dstc_freeslots(_, _)
compiler_dstc_freeslots(c, slots) ==
    IF slots = <<>> THEN c
    ELSE compiler_dstc_freeslots(compiler_dstc_freeslot(c, Head(slots)), Tail(slots))

\* No C function of the constants has an optimizer (cfunopt.c is absent).
compiler_dstc_call(c, opts, slots, fun) ==
    LET done(called, localindex) ==
            Returned(compiler_dstc_freeslots(dstc_postread(called.c, fun, localindex), slots),
                     called.ret)
        call(target, localindex) ==
            Returned(dstc_emit(target.c, "DOP_CALL", <<SlotOp(target.ret.index), SlotOp(localindex)>>),
                     target.ret)
        read(localindex) ==
            IF "TAIL" \in opts.flags
            THEN done(Returned(dstc_emit(localindex.c, "DOP_TAILCALL", <<SlotOp(localindex.ret)>>),
                               [dstc_cslot(NilV) EXCEPT !.flags = {"RETURNED"}]),
                      localindex.ret)
            ELSE done(call(compiler_dstc_gettarget(localindex.c, opts), localindex.ret),
                      localindex.ret)
    IN  read(dstc_preread(compiler_dstc_pushslots(c, slots, 0), 255, 1, fun))

dstc_ast_push(c, tup) ==
    LET pushed(mapping) == [c EXCEPT !.ast_stack = Append(@, mapping),
                                     !.current_mapping = mapping]
    IN  IF c.result.status = DST_COMPILE_ERROR THEN c
        ELSE pushed(IF tup.line = 0 THEN c.current_mapping
                    ELSE [line |-> tup.line, column |-> tup.column])

dstc_ast_pop(c) ==
    IF c.result.status = DST_COMPILE_ERROR THEN c
    ELSE [c EXCEPT !.ast_stack = SubSeq(@, 1, Len(@) - 1),
                   !.current_mapping = IF Len(c.ast_stack) > 1 THEN c.ast_stack[Len(c.ast_stack) - 1]
                                       ELSE [line |-> 0, column |-> 0]]

\* No form compiled here is headed by a special form or by a macro, and none
\* is a struct, a table or a buffer.
RECURSIVE compiler_dstc_value(_, _, _)
RECURSIVE compiler_dstc_toslots(_, _, _)
compiler_dstc_toslots(c, vals, i) ==
    LET rest(first) ==
            LET joined(r) == Returned(r.c, <<first.ret>> \o r.ret)
            IN  joined(compiler_dstc_toslots(first.c, vals, i + 1))
    IN  IF i > Len(vals) THEN Returned(c, <<>>)
        ELSE rest(compiler_dstc_value(c, dstc_fopts_default, vals[i]))

compiler_dstc_value(c0, opts, x) ==
    LET c == [c0 EXCEPT !.recursion_guard = @ - 1]
        hinted(r) ==
            IF "HINT" \in opts.flags /\ ~dstc_sequal(opts.hint, r.ret)
            THEN Returned(dstc_copy(r.c, opts.hint, r.ret), opts.hint)
            ELSE r
        restored(r) == Returned([r.c EXCEPT !.recursion_guard = @ + 1], r.ret)
        finish(d) ==
            IF d.c.result.status = DST_COMPILE_ERROR THEN Returned(d.c, dstc_cslot(NilV))
            ELSE restored(hinted(IF "TAIL" \in opts.flags THEN compiler_dstc_return(d.c, d.ret)
                                 ELSE d))
        popped(d) == Returned(dstc_ast_pop(d.c), d.ret)
        args(slots, fun) == compiler_dstc_call(slots.c, opts, slots.ret, fun)
        call(head) == args(compiler_dstc_toslots(head.c, x.items, 2), head.ret)
        tuple(at) ==
            IF Len(x.items) = 0 THEN Returned(at, dstc_cslot(x))
            ELSE call(compiler_dstc_value(at, [dstc_fopts_default EXCEPT
                                                  !.flags = {"FUNCTION", "CFUNCTION"}],
                                          x.items[1]))
        symbol == IF Len(x.bytes) > 0 /\ x.bytes[1] # Ch("COLON") THEN dstc_resolve(c, x.bytes)
                  ELSE Returned(c, dstc_cslot(x))
        array(slots) == compiler_dstc_call(slots.c, opts, slots.ret,
                                           dstc_cslot([t |-> "cfunction"]))
    IN  IF c.result.status = DST_COMPILE_ERROR THEN Returned(c, dstc_cslot(NilV))
        ELSE IF c.recursion_guard <= 0
        THEN Returned(dstc_cerror(c, "recursed too deeply"), dstc_cslot(NilV))
        ELSE IF x.t = "symbol" THEN finish(symbol)
        ELSE IF x.t = "tuple" THEN finish(popped(tuple(dstc_ast_push(c, x))))
        ELSE IF x.t = "array" THEN finish(array(compiler_dstc_toslots(c, x.items, 1)))
        ELSE finish(Returned(c, dstc_cslot(x)))

compiler_dstc_throwaway(c, opts, x) ==
    LET cut(r) == [r EXCEPT !.buffer = SubSeq(@, 1, Len(c.buffer)),
                            !.mapbuffer = SubSeq(@, 1, Len(c.mapbuffer))]
        compiled(v) == cut(compiler_dstc_popscope(v.c))
    IN  compiled(compiler_dstc_value(compiler_dstc_scope(c, {"UNUSED"}), opts, x))

compiler_dstc_pop_funcdef(c) ==
    LET scope == c.scope[Len(c.scope)]
        def(bytecode_length) ==
            [t |-> "funcdef",
             slotcount |-> scope.smax + 1,
             environments |-> scope.envs,
             constants |-> scope.consts,
             bytecode |-> SubSeq(c.buffer, scope.bytecode_start + 1,
                                 scope.bytecode_start + bytecode_length),
             sourcemap |-> IF bytecode_length # 0 THEN c.mapbuffer ELSE <<>>,
             arity |-> 0,
             flags |-> IF "ENV" \in scope.flags THEN {"NEEDSENV"} ELSE {},
             name |-> NullString]
        cut == IF Len(c.buffer) - scope.bytecode_start # 0
               THEN [c EXCEPT !.buffer = SubSeq(@, 1, scope.bytecode_start),
                              !.mapbuffer = SubSeq(@, 1, scope.bytecode_start)]
               ELSE c
    IN  Returned(compiler_dstc_popscope(cut), def(Len(c.buffer) - scope.bytecode_start))

\* dst_compile after dstc_value has returned.
compiler_dst_compile_leave(c) ==
    IF c.result.status = DST_COMPILE_OK
    THEN LET thunk(r) == [r.c EXCEPT !.result.funcdef = [r.ret EXCEPT !.name = dst_cstring("_thunk")],
                                     !.scope = <<>>]
         IN  thunk(compiler_dstc_pop_funcdef(c))
    ELSE [c EXCEPT !.scope = <<>>]

(***************************************************************************)
(* SpecSlots: the slot allocator of the older compiler, driven as the      *)
(* absent special forms drive it.  The parameters and leading locals of    *)
(* the function take its first slots (Params, comp.params of them); after  *)
(* that a single allocation, near allocation, reservation or release is    *)
(* one step.  comp.declared and comp.ops count the steps of a compilation,  *)
(* comp.carried the bindings its scope pops have carried to a parent.      *)
(***************************************************************************)
ParamCounts == {3, 223, 239, 240}
NearLimits == {255, 65535}
NearOrdinals == {1, 2}
SlotIndices == {-1, 0, 2, 224, 239, 240, 255, 256}

SlotStep(c) == [c EXCEPT !.ops = @ + 1]

\* The parameters and leading locals of the function have their slots.
SlotsReady ==
    /\ cpc = "value"
    /\ comp.declared = comp.params
    /\ comp.ops < MaxSlotOps

compiler_dst_compile_enter(n) ==
    /\ cpc = "idle"
    /\ comp' = [compiler_dstc_scope(compiler_dstc_init, {"FUNCTION", "TOP"}) EXCEPT !.params = n]
    /\ cpc' = "value"
    /\ cret' = CompilerCall("dst_compile", NilV, NilV)
    /\ UNCHANGED pvars

\* One parameter or leading local takes the next slot.
Params ==
    /\ cpc = "value"
    /\ comp.declared < comp.params
    /\ LET a == dstc_lsloti(comp)
       IN  /\ comp' = [a.c EXCEPT !.declared = @ + 1]
           /\ cret' = CompilerCall("params", NilV, a.ret)
    /\ UNCHANGED <<cpc, pvars>>

Lsloti ==
    /\ SlotsReady
    /\ LET a == dstc_lsloti(comp)
       IN  /\ comp' = SlotStep(a.c)
           /\ cret' = CompilerCall("lsloti", NilV, a.ret)
    /\ UNCHANGED <<cpc, pvars>>

Lslotn(max, nth) ==
    /\ SlotsReady
    /\ LET a == dstc_lslotn(comp, max, nth)
       IN  /\ comp' = SlotStep(a.c)
           /\ cret' = CompilerCall("lslotn", <<max, nth>>, a.ret)
    /\ UNCHANGED <<cpc, pvars>>

Slotalloci(index) ==
    /\ SlotsReady
    /\ comp' = SlotStep(slotalloci(comp, index))
    /\ cret' = CompilerCall("slotalloci", index, NilV)
    /\ UNCHANGED <<cpc, pvars>>

Sfreei(index) ==
    /\ SlotsReady
    /\ comp' = SlotStep(dstc_sfreei(comp, index))
    /\ cret' = CompilerCall("sfreei", index, NilV)
    /\ UNCHANGED <<cpc, pvars>>

SlotScope(flags) ==
    /\ SlotsReady
    /\ Len(comp.scope) < MaxSlotScopes
    /\ comp' = SlotStep(compiler_dstc_scope(comp, flags))
    /\ cret' = CompilerCall("scope", flags, NilV)
    /\ UNCHANGED <<cpc, pvars>>

SlotPopScope ==
    /\ cpc = "value"
    /\ Len(comp.scope) > 1
    /\ "FUNCTION" \notin Top(comp).flags
    /\ comp' = [compiler_dstc_popscope(comp) EXCEPT
                    !.carried = IF "UNUSED" \in Top(comp).flags THEN @
                                ELSE @ + Len(KeptPairs(Top(comp).syms))]
    /\ cret' = CompilerCall("popscope", NilV, NilV)
    /\ UNCHANGED <<cpc, pvars>>

SlotPopFuncdef ==
    /\ cpc = "value"
    /\ Len(comp.scope) > 1
    /\ "FUNCTION" \in Top(comp).flags
    /\ LET r == compiler_dstc_pop_funcdef(comp)
       IN  /\ comp' = r.c
           /\ cret' = CompilerCall("pop_funcdef", NilV, r.ret)
    /\ UNCHANGED <<cpc, pvars>>

SlotsLeave ==
    /\ cpc = "value"
    /\ Len(comp.scope) = 1
    /\ comp' = compiler_dst_compile_leave(comp)
    /\ cpc' = "done"
    /\ cret' = CompilerCall("dst_compile", NilV, comp'.result)
    /\ UNCHANGED pvars

NextSlots ==
    \/ \E n \in ParamCounts : compiler_dst_compile_enter(n)
    \/ Params
    \/ Lsloti
    \/ \E max \in NearLimits, nth \in NearOrdinals : Lslotn(max, nth)
    \/ \E index \in SlotIndices : Slotalloci(index)
    \/ \E index \in SlotIndices : Sfreei(index)
    \/ \E flags \in {{}, {"FUNCTION"}, {"UNUSED"}} : SlotScope(flags)
    \/ SlotPopScope
    \/ SlotPopFuncdef
    \/ SlotsLeave

SpecSlots == Init /\ [][NextSlots]_vars

\* The indices whose busy bit is set in a scope's bit vector.
BusySlots(scope) ==
    {i \in 0..(32 * Len(scope.slots) - 1) : i % 32 \in scope.slots[(i \div 32) + 1]}

\* C27: the general allocator (dstc_lsloti) returns the lowest index that is
\* free and outside the reserved pool 0xF0-0xFF, never a pool index, and
\* freeing a pool index does not clear its busy bit: in every scope whose bit
\* vector reaches the pool, the pool's bits stay set.
C27_PoolReserved ==
    [][cpc' = "value" =>
        /\ \A i \in 1..Len(comp'.scope) :
              Len(comp'.scope[i].slots) > 7 => PoolBlock \subseteq comp'.scope[i].slots[8]
        /\ cret'.op = "lsloti" =>
              LET busy == BusySlots(comp.scope[Len(comp.scope)])
              IN  /\ cret'.ret \notin ReservedPool
                  /\ cret'.ret \notin busy
                  /\ \A j \in 0..(cret'.ret - 1) : j \in busy \cup ReservedPool
                  /\ cret'.ret \in BusySlots(comp'.scope[Len(comp'.scope)])
        /\ (cret'.op = "sfreei" /\ cret'.arg \in ReservedPool) =>
              comp'.scope = comp.scope]_vars

\* The allocator has stepped over the pool (0..239 busy, 256 returned), and the
\* pool index 0xFF has been freed in a scope whose bit vector holds it.
C27_Witness ==
    /\ cpc = "value"
    /\ cret.op = "sfreei"
    /\ cret.arg = 255
    /\ 256 \in BusySlots(comp.scope[Len(comp.scope)])
    /\ 255 \in BusySlots(comp.scope[Len(comp.scope)])

(***************************************************************************)
(* SpecOld: code generation of the older compiler.  The absent special     *)
(* forms and dstc_value are the callers of dstc_preread, dstc_return and   *)
(* dstc_call; here each call is one step, made at a source line, on slots  *)
(* the caller can hold: constants, busy locals of the current scope and an *)
(* upvalue of an enclosing function.                                       *)
(***************************************************************************)
OldParamCounts == {3, 240}
OldLines == {1, 2}

LocalSlot(index) == [flags |-> {}, index |-> index, constant |-> NilV, envindex |-> -1]
UpvalueSlot(index, envindex) == [flags |-> {}, index |-> index, constant |-> NilV, envindex |-> envindex]

IsBusy(scope, index) ==
    /\ index >= 0
    /\ index \div 32 < Len(scope.slots)
    /\ index % 32 \in scope.slots[(index \div 32) + 1]

\* The highest local the current scope has reached, if it is busy.
HeldLocals(c) ==
    {LocalSlot(i) : i \in {i \in {Top(c).smax} \ ReservedPool : IsBusy(Top(c), i)}}

HeldSlots(c) ==
    {dstc_cslot(NumV(1)), dstc_cslot(StringV(<<>>))}
        \cup HeldLocals(c)
        \cup (IF Len(c.scope) > 1 THEN {UpvalueSlot(0, 0)} ELSE {})

OldReady(max) ==
    /\ cpc = "value"
    /\ comp.declared = comp.params
    /\ comp.ops < max

At(c, line) == [c EXCEPT !.current_mapping = [line |-> line, column |-> 0]]

Preread(max, nth) ==
    /\ OldReady(MaxPrereadOps)
    /\ \E s \in HeldSlots(comp) :
          LET a == dstc_preread(comp, max, nth, s)
          IN  /\ comp' = SlotStep(a.c)
              /\ cret' = CompilerCall("preread", [max |-> max, nth |-> nth, s |-> s], a.ret)
    /\ UNCHANGED <<cpc, pvars>>

\* The argument lists of a call: none, one, two or three slots.
HeldArgs(c) ==
    {<<>>} \cup {<<dstc_cslot(NumV(1)), s>> : s \in HeldLocals(c)}
           \cup {<<dstc_cslot(NumV(1)), dstc_cslot(NumV(1)), dstc_cslot(StringV(<<>>))>>}

EmitCall(flags) ==
    /\ OldReady(MaxOldOps)
    /\ \E slots \in HeldArgs(comp), fun \in HeldLocals(comp) \cup {dstc_cslot(StringV(<<>>))} :
          LET a == compiler_dstc_call(comp, [flags |-> flags, hint |-> dstc_cslot(NilV)], slots, fun)
          IN  /\ comp' = SlotStep(a.c)
              /\ cret' = CompilerCall("call", [slots |-> slots, fun |-> fun], a.ret)
    /\ UNCHANGED <<cpc, pvars>>

OldScope(flags, max) ==
    /\ OldReady(max)
    /\ Len(comp.scope) < MaxOldScopes
    /\ comp' = SlotStep(compiler_dstc_scope(comp, flags))
    /\ cret' = CompilerCall("scope", flags, NilV)
    /\ UNCHANGED <<cpc, pvars>>

\* A special form binds a symbol to a fresh local of the current scope and
\* copies its value, the integer 1, into it.
DefLocal(sym) ==
    /\ OldReady(MaxOldOps)
    /\ ~resolve_search(comp, sym, Len(comp.scope), TRUE, FALSE).found
    /\ LET named(a) == dstc_nameslot(dstc_copy(a.c, LocalSlot(a.ret), dstc_cslot(NumV(1))),
                                     sym, LocalSlot(a.ret))
       IN  comp' = SlotStep(named(dstc_lsloti(comp)))
    /\ cret' = CompilerCall("def", sym, NilV)
    /\ UNCHANGED <<cpc, pvars>>

\* dstc_value of a symbol in tail position: dstc_resolve, then dstc_return.
EmitSymbol(line, sym) ==
    /\ OldReady(MaxOldOps)
    /\ LET returned(r) == compiler_dstc_return(r.c, r.ret)
           emitted(a) == /\ comp' = SlotStep(a.c)
                         /\ cret' = CompilerCall("symbol", sym, a.ret)
       IN  emitted(returned(dstc_resolve(At(comp, line), sym)))
    /\ UNCHANGED <<cpc, pvars>>

NextOld ==
    \/ \E n \in OldParamCounts : compiler_dst_compile_enter(n)
    \/ Params
    \/ Lsloti
    \/ DefLocal(<<Ch("x")>>)
    \/ \E line \in OldLines : EmitSymbol(line, <<Ch("x")>>)
    \/ \E flags \in {{}, {"FUNCTION"}} : OldScope(flags, MaxOldOps)
    \/ SlotPopScope
    \/ SlotPopFuncdef
    \/ \E flags \in {{}, {"TAIL"}} : EmitCall(flags)
    \/ SlotsLeave

SpecOld == Init /\ [][NextOld]_vars

(***************************************************************************)
(* SpecPreread: dstc_preread called on its own, as the special forms and   *)
(* the emitters call it, on each kind of slot.                             *)
(***************************************************************************)
NextPreread ==
    \/ \E n \in OldParamCounts : compiler_dst_compile_enter(n)
    \/ Params
    \/ Lsloti
    \/ \E flags \in {{}, {"FUNCTION"}} : OldScope(flags, MaxPrereadOps)
    \/ SlotPopScope
    \/ SlotPopFuncdef
    \/ \E max \in NearLimits : Preread(max, 1)
    \/ SlotsLeave

SpecPreread == Init /\ [][NextPreread]_vars

\* The source map of a definition has one entry for each of its instructions,
\* the mapping in force when the instruction was emitted.
DefMapped(def) ==
    /\ Len(def.sourcemap) = Len(def.bytecode)
    /\ \A i \in 1..Len(def.bytecode) : def.sourcemap[i] = def.bytecode[i].at

\* C23: at every point of a compilation the source-map buffer is as long as
\* the bytecode buffer, and every function definition produced, nested or
\* top-level, has a source map of bytecode_length entries, entry i being the
\* mapping recorded when instruction i of that function was emitted.
C23_Parity ==
    cpc # "idle" =>
        /\ Len(comp.mapbuffer) = Len(comp.buffer)
        /\ cret.op = "pop_funcdef" => DefMapped(cret.ret)
        /\ (cpc = "done" /\ comp.result.status = DST_COMPILE_OK) => DefMapped(comp.result.funcdef)

\* Every operand of a definition's instructions that addresses a local slot
\* lies below its slot count.
DefSlotsBounded(def) ==
    \A i \in 1..Len(def.bytecode) :
        \A j \in 1..Len(def.bytecode[i].args) :
            def.bytecode[i].args[j].k = "slot" => def.bytecode[i].args[j].v <= def.slotcount - 1

\* C26: in every function definition produced, each local slot index used as
\* an instruction operand is at most slotcount - 1 (slotcount = smax + 1),
\* temporaries of the pool 0xF0-0xFF and slots of popped scopes included.
C26_SlotBound ==
    cpc # "idle" =>
        /\ cret.op = "pop_funcdef" => DefSlotsBounded(cret.ret)
        /\ (cpc = "done" /\ comp.result.status = DST_COMPILE_OK) =>
              /\ comp.result.funcdef.slotcount >= 0
              /\ DefSlotsBounded(comp.result.funcdef)

\* A thunk of more than 256 slots that moves a value into slot 256, the slot
\* of a binding of a popped scope that was kept for a closure.
C26_Witness ==
    /\ cpc = "done"
    /\ comp.result.status = DST_COMPILE_OK
    /\ comp.result.funcdef.slotcount > 256
    /\ comp.carried > 0
    /\ \E i \in 1..Len(comp.result.funcdef.bytecode) :
          SlotOp(256) \in {comp.result.funcdef.bytecode[i].args[j] :
                              j \in 1..Len(comp.result.funcdef.bytecode[i].args)}

\* C28: dstc_preread of a local slot without environment whose index exceeds
\* the maximum takes a near slot and emits a move from the far slot into it;
\* load-upvalue is emitted only for slots with envindex >= 0; a local slot
\* within the maximum is returned as it is and nothing is emitted.
C28_PrereadFar ==
    [][cret'.op = "preread" =>
        LET s == cret'.arg.s
            max == IF "REF" \in s.flags THEN 255 ELSE cret'.arg.max
            emitted == SubSeq(comp'.buffer, Len(comp.buffer) + 1, Len(comp'.buffer))
            local == s.flags \cap {"CONSTANT", "REF"} = {} /\ s.envindex < 0
        IN  /\ (local /\ s.index > max) =>
                  /\ Len(emitted) = 1
                  /\ emitted[1].op = "DOP_MOVE_NEAR"
                  /\ emitted[1].args = <<SlotOp(cret'.ret), SlotOp(s.index)>>
                  /\ cret'.ret <= max
            /\ \A i \in 1..Len(emitted) : emitted[i].op = "DOP_LOAD_UPVALUE" => s.envindex >= 0
            /\ (local /\ s.index <= max) => (cret'.ret = s.index /\ emitted = <<>>)]_vars

\* C24: dstc_scope records the buffer length as bytecode_start; popping a
\* function scope into a definition gives the definition exactly the
\* instructions emitted since then, cuts the buffer back to bytecode_start
\* and leaves the instructions before it, those of the enclosing function, as
\* they were.  While a scope stays open its bytecode_start and the
\* instructions below it do not change.
C24_PopFuncdef ==
    [][/\ (cpc = "value" /\ cpc' = "value") =>
              \A i \in 1..Len(comp.scope) :
                  i <= Len(comp'.scope) =>
                      /\ comp'.scope[i].bytecode_start = comp.scope[i].bytecode_start
                      /\ comp.scope[i].bytecode_start <= Len(comp'.buffer)
                      /\ SubSeq(comp'.buffer, 1, comp.scope[i].bytecode_start)
                            = SubSeq(comp.buffer, 1, comp.scope[i].bytecode_start)
       /\ (cpc = "value" /\ cret'.op = "scope") =>
              /\ Top(comp').bytecode_start = Len(comp.buffer)
              /\ comp'.buffer = comp.buffer
       /\ (cpc = "value" /\ cret'.op = "pop_funcdef") =>
              /\ cret'.ret.bytecode
                    = SubSeq(comp.buffer, Top(comp).bytecode_start + 1, Len(comp.buffer))
              /\ Len(comp'.buffer) = Top(comp).bytecode_start
              /\ comp'.buffer = SubSeq(comp.buffer, 1, Top(comp).bytecode_start)
       /\ (cpc = "value" /\ cpc' = "done" /\ comp'.result.status = DST_COMPILE_OK) =>
              /\ comp'.result.funcdef.bytecode = comp.buffer
              /\ comp'.buffer = <<>>]_vars

\* A nested function with an instruction of its own has been popped and an
\* instruction of the enclosing function is left in the buffer.
C24_Witness ==
    /\ cpc = "value"
    /\ cret.op = "pop_funcdef"
    /\ Len(cret.ret.bytecode) = 1
    /\ Len(comp.buffer) = 1
    /\ cret.ret.bytecode[1].at # comp.buffer[1].at

\* C25: when a scope that is neither a function scope nor unused is popped,
\* its bindings marked keep are appended to the parent's list in their order,
\* nameless, their slots are busy in the parent's allocator, the parent's max
\* is at least the popped scope's, and nothing else is carried: the parent's
\* busy set grows by the kept slots only.
C25_PopKeep ==
    [][(cpc = "value" /\ cret'.op = "popscope"
            /\ Top(comp).flags \cap {"FUNCTION", "UNUSED"} = {}) =>
        LET n == Len(comp.scope)
            old == comp.scope[n]
            parent == comp.scope[n - 1]
            new == comp'.scope[n - 1]
            kept == SelectSeq(old.syms, LAMBDA pair : pair.keep)
        IN  /\ Len(comp'.scope) = n - 1
            /\ Len(new.syms) = Len(parent.syms) + Len(kept)
            /\ SubSeq(new.syms, 1, Len(parent.syms)) = parent.syms
            /\ \A i \in 1..Len(kept) :
                  /\ new.syms[Len(parent.syms) + i].sym = NullSym
                  /\ new.syms[Len(parent.syms) + i].slot = kept[i].slot
                  /\ new.syms[Len(parent.syms) + i].keep
                  /\ kept[i].slot.index \in new.ra.busy
            /\ new.ra.max >= old.ra.max
            /\ new.ra.max >= parent.ra.max
            /\ new.ra.busy = parent.ra.busy \cup {kept[i].slot.index : i \in 1..Len(kept)}]_vars

\* A block with two locals, the second captured by a closure, has been
\* popped: the parent holds the captured one nameless in slot 1, slot 0 of the
\* other is free again, and the watermark stays at 1.
C25_Witness ==
    /\ cpc = "value"
    /\ cret.op = "popscope"
    /\ Top(comp).ra.busy = {1}
    /\ Top(comp).ra.max = 1
    /\ \E i \in 1..Len(Top(comp).syms) :
          /\ Top(comp).syms[i].sym = NullSym
          /\ Top(comp).syms[i].keep
          /\ Top(comp).syms[i].slot.index = 1

(***************************************************************************)
(* Macro expansion and the depth of value dispatch (core compile.c).        *)
(***************************************************************************)
\* (e k): a form that reaches the call (f) after k + 1 expansions.
Countdown(k) == TupleV(<<Symbol("e"), NumV(k)>>, FALSE)

MacroForms ==
    {Countdown(k) : k \in 0..DST_MAX_MACRO_EXPAND}
        \cup {Nested(n) : n \in 0..DST_RECURSION_GUARD}
        \cup {NilV, TupleV(<<Symbol("e")>>, FALSE),
              TupleV(<<Symbol("f"), Countdown(0)>>, FALSE)}

NextMacro ==
    \/ dst_compile_enter
    \/ CompileLeave
    \/ \E flags \in ScopeFlags : PushScope(flags, MaxCompileScopes)
    \/ PopScope
    \/ PopFuncdef
    \/ \E m \in ErrorMessages : RaiseError(m)
    \/ \E opts \in ValueOpts : \E x \in MacroForms : Value(opts, x)

SpecMacro == Init /\ [][NextMacro]_vars

\* The number of expansions after which a form headed by e is no macro form.
Needed(x) ==
    IF x.t = "tuple" /\ Len(x.items) = 2 /\ x.items[1] = Symbol("e") /\ x.items[2].t = "number"
    THEN x.items[2].n + 1
    ELSE 0

MacroCapError == dst_cstring("recursed too deeply in macro expansion")

\* C29: compiling one form performs at most DST_MAX_MACRO_EXPAND expansions,
\* and a form that reaches a non-macro form within DST_MAX_MACRO_EXPAND
\* expansions, exactly that many included, compiles without the error
\* "recursed too deeply in macro expansion".
C29_MacroCap ==
    [][(/\ cpc = "value"
        /\ comp.result.status = DST_COMPILE_OK
        /\ cret'.op = "value"
        /\ Needed(cret'.arg.x) > 0) =>
           /\ comp'.expansions <= DST_MAX_MACRO_EXPAND
           /\ Needed(cret'.arg.x) <= DST_MAX_MACRO_EXPAND =>
                  comp'.result.error # MacroCapError]_vars

\* The depth of the dstc_value calls that a form without macros asks for.
RECURSIVE Levels(_)
Levels(x) ==
    IF x.t \in {"tuple", "array"} /\ Len(x.items) > 0
    THEN 1 + CHOOSE n \in {Levels(x.items[i]) : i \in 1..Len(x.items)} :
                 \A i \in 1..Len(x.items) : Levels(x.items[i]) <= n
    ELSE 1

DeepError == dst_cstring("recursed too deeply")

NestedForms == {Nested(n) : n \in 0..DST_RECURSION_GUARD}

\* C30: dstc_value takes one from the recursion guard on entry and gives it
\* back on every successful return, so the guard has its initial value while
\* the compile has not failed and when it succeeds; "recursed too deeply" is
\* raised exactly for the forms whose nesting reaches the depth of the guard,
\* and no form is dispatched with the guard at or below zero.
C30_Guard ==
    [][/\ (cpc = "value" /\ comp.result.status = DST_COMPILE_OK) =>
              comp.recursion_guard = DST_RECURSION_GUARD
       /\ (cpc = "value" /\ comp.result.status = DST_COMPILE_OK /\ cret'.op = "value") =>
              /\ comp'.floor >= 1
              /\ comp'.result.status = DST_COMPILE_OK =>
                     comp'.recursion_guard = comp.recursion_guard
              /\ comp'.result.error = DeepError => comp'.recursion_guard = 0
              /\ cret'.arg.x \in NestedForms =>
                     /\ comp'.result.error = DeepError
                            <=> Levels(cret'.arg.x) >= comp.recursion_guard
                     /\ comp'.result.status = DST_COMPILE_OK =>
                            comp'.floor <= comp.recursion_guard - Levels(cret'.arg.x)
       /\ (cpc = "value" /\ cret'.op = "dst_compile"
                /\ cret'.ret.status = DST_COMPILE_OK) =>
              comp'.recursion_guard = DST_RECURSION_GUARD]_vars

C30_Witness ==
    /\ cpc = "value"
    /\ cret.op = "value"
    /\ cret.arg.x = Nested(DST_RECURSION_GUARD - 2)
    /\ comp.result.status = DST_COMPILE_OK
    /\ comp.recursion_guard = DST_RECURSION_GUARD
    /\ comp.floor = 1

(***************************************************************************)
(* SpecConst: the constant pool of the older compiler.                      *)
(***************************************************************************)
MaxConstOps == 3

\* Tuples read at different source positions.
ConstValues ==
    {NumV(40000), StringV(<<>>), StringV(<<Ch("a")>>),
     TupleAt(<<NumV(1)>>, 1, 1), TupleAt(<<NumV(1)>>, 2, 1), TupleAt(<<NumV(2)>>, 1, 1)}

Const(x) ==
    /\ OldReady(MaxConstOps)
    /\ LET a == dstc_const(comp, x)
       IN  /\ comp' = SlotStep(a.c)
           /\ cret' = CompilerCall("const", x, a.ret)
    /\ UNCHANGED <<cpc, pvars>>

\* The integers 100001, 100002, ...: constants that no other step adds.
Filler(i) == NumV(100000 + i)

\* dstc_const called on each of the first fillers in turn, until the pool of
\* the function has room for `room` more: every one of them is new to the
\* pool, so each call appends it.
Fill(room) ==
    /\ OldReady(MaxConstOps)
    /\ comp.result.status = DST_COMPILE_OK
    /\ LET n == ConstScope(comp)
           len == Len(comp.scope[n].consts)
       IN  /\ \A i \in 1..len : IF comp.scope[n].consts[i].t = "number"
                                 THEN comp.scope[n].consts[i].n < 100000 ELSE TRUE
           /\ comp' = SlotStep([comp EXCEPT !.scope[n].consts =
                                   @ \o [i \in 1..(65535 - room - len) |-> Filler(i)]])
    /\ cret' = CompilerCall("fill", NumV(room), NilV)
    /\ UNCHANGED <<cpc, pvars>>

NextConst ==
    \/ compiler_dst_compile_enter(0)
    \/ \E flags \in {{}, {"FUNCTION"}} : OldScope(flags, MaxConstOps)
    \/ SlotPopScope
    \/ SlotPopFuncdef
    \/ \E x \in ConstValues : Const(x)
    \/ \E room \in {0, 1} : Fill(room)
    \/ SlotsLeave

SpecConst == Init /\ [][NextConst]_vars

Pool(c) == c.scope[ConstScope(c)].consts

\* A value without the source positions of its tuples: two values are equal
\* exactly when these are the same.
RECURSIVE Positionless(_)
Positionless(x) ==
    IF x.t = "tuple"
    THEN [x EXCEPT !.line = -1, !.column = -1,
                   !.items = [i \in 1..Len(x.items) |-> Positionless(x.items[i])]]
    ELSE x

\* C31: the pool of a function scope never holds two equal values nor more
\* than 65535 entries; adding a value equal to an entry returns the index of
\* that entry and leaves the pool as it is, adding a new value appends it and
\* returns its index, and adding a new value to a pool of 65535 entries raises
\* "too many constants" and leaves the pool as it is.
C31_ConstPool ==
    [][/\ cpc' = "value" =>
              \A n \in 1..Len(comp'.scope) :
                  /\ Len(comp'.scope[n].consts) <= 65535
                  /\ Cardinality({Positionless(comp'.scope[n].consts[i]) :
                                      i \in 1..Len(comp'.scope[n].consts)})
                         = Len(comp'.scope[n].consts)
       /\ \A x, y \in ConstValues : dst_equals(x, y) <=> Positionless(x) = Positionless(y)
       /\ (cpc = "value" /\ cret'.op = "const") =>
              LET old == Pool(comp)
                  here == {i \in 1..Len(old) : dst_equals(cret'.arg, old[i])}
              IN  /\ here # {} =>
                         /\ cret'.ret + 1 \in here
                         /\ comp'.scope = comp.scope
                         /\ comp'.result = comp.result
                  /\ (here = {} /\ Len(old) < 65535) =>
                         /\ Pool(comp') = Append(old, cret'.arg)
                         /\ cret'.ret = Len(old)
                         /\ comp'.result = comp.result
                  /\ (here = {} /\ Len(old) = 65535) =>
                         /\ comp'.scope = comp.scope
                         /\ dst_cstring("too many constants") \in
                                {comp'.errors[i] : i \in 1..Len(comp'.errors)}
                         /\ comp'.result.status = DST_COMPILE_ERROR]_vars

C31_Witness ==
    /\ cpc = "value"
    /\ cret.op = "const"
    /\ Len(Pool(comp)) = 65535
    /\ comp.result.error = dst_cstring("too many constants")

(***************************************************************************)
(* SpecLoad: dstc_loadconst on each kind of constant.                       *)
(***************************************************************************)
MaxLoadOps == 2

LoadValues ==
    {NilV, BoolV(TRUE), BoolV(FALSE), StringV(<<>>)}
        \cup {NumV(i) : i \in {-32769, -32768, -32767, -1, 0, 1, 32767, 32768}}

LoadDests == {0, 1, 128, 255}

Loadconst(k, dest) ==
    /\ OldReady(MaxLoadOps)
    /\ comp' = SlotStep(dstc_loadconst(comp, k, dest))
    /\ cret' = CompilerCall("loadconst", [k |-> k, dest |-> dest], NilV)
    /\ UNCHANGED <<cpc, pvars>>

NextLoad ==
    \/ compiler_dst_compile_enter(0)
    \/ \E flags \in {{}, {"FUNCTION"}} : OldScope(flags, MaxLoadOps)
    \/ SlotPopScope
    \/ SlotPopFuncdef
    \/ \E k \in LoadValues : \E dest \in LoadDests : Loadconst(k, dest)
    \/ SlotsLeave

SpecLoad == Init /\ [][NextLoad]_vars

\* The value of a 16-bit field read as a signed number.
SignExtend16(field) == IF field >= 32768 THEN field - 65536 ELSE field

LastInstr(c) == c.buffer[Len(c.buffer)]

\* C32: loading an integer i emits load-integer exactly when
\* -32768 <= i <= 32767 and load-constant with the pool index of i otherwise;
\* the high half of the load-integer word sign-extends to i, its low byte is
\* the opcode and its second byte the destination; nil, true and false are
\* loaded by their own opcodes; only load-constant adds to the constant pool.
C32_LoadConst ==
    [][(cpc = "value" /\ cret'.op = "loadconst") =>
          LET k == cret'.arg.k
              dest == cret'.arg.dest
              instr == LastInstr(comp')
              dedicated == CASE k.t = "nil" -> "DOP_LOAD_NIL"
                             [] k.t = "boolean" -> IF k.b THEN "DOP_LOAD_TRUE" ELSE "DOP_LOAD_FALSE"
                             [] OTHER -> "none"
          IN  /\ Len(comp'.buffer) = Len(comp.buffer) + 1
              /\ instr.word.lo % 256 = Opcode[instr.op]
              /\ instr.word.lo \div 256 = dest
              /\ k.t = "number" =>
                     /\ instr.op = "DOP_LOAD_INTEGER" <=> (-32768 <= k.n /\ k.n <= 32767)
                     /\ instr.op # "DOP_LOAD_INTEGER" => instr.op = "DOP_LOAD_CONSTANT"
              /\ instr.op = "DOP_LOAD_INTEGER" =>
                     /\ SignExtend16(instr.word.hi) = k.n
                     /\ Pool(comp') = Pool(comp)
              /\ instr.op = "DOP_LOAD_CONSTANT" =>
                     /\ instr.word.hi + 1 \in 1..Len(Pool(comp'))
                     /\ dst_equals(k, Pool(comp')[instr.word.hi + 1])
              /\ k.t \in {"nil", "boolean"} =>
                     /\ instr.op = dedicated
                     /\ Pool(comp') = Pool(comp)]_vars

C32_Witness ==
    /\ cpc = "value"
    /\ cret.op = "loadconst"
    /\ cret.arg.k = NumV(-32768)
    /\ cret.arg.dest = 255
    /\ LastInstr(comp).op = "DOP_LOAD_INTEGER"
    /\ LastInstr(comp).word = [hi |-> 32768, lo |-> 255 * 256 + Opcode["DOP_LOAD_INTEGER"]]

(***************************************************************************)
(* SpecDead: the older compiler compiling forms to keep and forms to throw  *)
(* away.                                                                    *)
(***************************************************************************)
MaxDeadOps == 3

OldForms ==
    {NilV, StringV(<<Ch("a")>>), NumV(40000), Symbol("f"), Symbol("u"), Symbol("x"),
     TupleAt(<<>>, 1, 1),
     TupleAt(<<Symbol("f"), StringV(<<Ch("b")>>)>>, 2, 1),
     ArrayV(<<NumV(1), NumV(70000)>>)}

OldValue(opts, x) ==
    /\ OldReady(MaxDeadOps)
    /\ LET a == compiler_dstc_value(comp, opts, x)
       IN  /\ comp' = SlotStep(a.c)
           /\ cret' = CompilerCall("value", [opts |-> opts, x |-> x], a.ret)
    /\ UNCHANGED <<cpc, pvars>>

OldThrowaway(opts, x) ==
    /\ OldReady(MaxDeadOps)
    /\ comp' = SlotStep(compiler_dstc_throwaway(comp, opts, x))
    /\ cret' = CompilerCall("throwaway", [opts |-> opts, x |-> x], NilV)
    /\ UNCHANGED <<cpc, pvars>>

\* A special form binds a symbol to a fresh local, as DefLocal does.
OldDef(sym) ==
    /\ OldReady(MaxDeadOps)
    /\ DefLocal(sym)

NextDead ==
    \/ compiler_dst_compile_enter(0)
    \/ OldDef(<<Ch("x")>>)
    \/ \E flags \in {{}, {"FUNCTION"}} : OldScope(flags, MaxDeadOps)
    \/ SlotPopScope
    \/ SlotPopFuncdef
    \/ \E opts \in ValueOpts : \E x \in OldForms : OldValue(opts, x)
    \/ \E opts \in ValueOpts : \E x \in OldForms : OldThrowaway(opts, x)
    \/ SlotsLeave

SpecDead == Init /\ [][NextDead]_vars

\* C40: compiling a form with dstc_throwaway leaves the constant pool of the
\* nearest enclosing function scope as it was.
C40_DeadConstants ==
    [][(cpc = "value" /\ cret'.op = "throwaway") => Pool(comp') = Pool(comp)]_vars

(***************************************************************************)
(* SpecTemps: the emitters of the older compiler that take temporaries,     *)
(* called on each kind of slot.                                             *)
(***************************************************************************)
MaxTempOps == 2

RefSlot == [flags |-> {"REF"}, index |-> -1, constant |-> ArrayV(<<NilV>>), envindex |-> -1]

\* Slots to read from and to write to: constants, a reference, an upvalue,
\* the first local and the highest local of the current scope (near or far).
TempLocals(c) ==
    HeldLocals(c) \cup (IF IsBusy(Top(c), 0) THEN {LocalSlot(0)} ELSE {})

TempSlots(c) == HeldSlots(c) \cup TempLocals(c) \cup {RefSlot}

TempArgs(c) ==
    {<<s>> : s \in TempSlots(c)}
        \cup {<<s, t>> : s \in TempSlots(c), t \in TempLocals(c) \cup {dstc_cslot(NumV(1))}}
        \cup {<<s, dstc_cslot(NumV(1)), t>> : s \in TempLocals(c) \cup {RefSlot}, t \in TempSlots(c)}
        \cup {<<s, s, s, t>> : s \in {dstc_cslot(NumV(1))}, t \in TempSlots(c)}

Pushslots ==
    /\ OldReady(MaxTempOps)
    /\ \E slots \in TempArgs(comp) :
          /\ comp' = SlotStep(compiler_dstc_pushslots(comp, slots, 0))
          /\ cret' = CompilerCall("pushslots", slots, NilV)
    /\ UNCHANGED <<cpc, pvars>>

Return ==
    /\ OldReady(MaxTempOps)
    /\ \E s \in TempSlots(comp) :
          LET a == compiler_dstc_return(comp, s)
          IN  /\ comp' = SlotStep(a.c)
              /\ cret' = CompilerCall("return", s, a.ret)
    /\ UNCHANGED <<cpc, pvars>>

Copy ==
    /\ OldReady(MaxTempOps)
    /\ \E dest \in TempSlots(comp), from \in TempSlots(comp) :
          /\ comp' = SlotStep(dstc_copy(comp, dest, from))
          /\ cret' = CompilerCall("copy", [dest |-> dest, from |-> from], NilV)
    /\ UNCHANGED <<cpc, pvars>>

NextTemps ==
    \/ \E n \in OldParamCounts : compiler_dst_compile_enter(n)
    \/ Params
    \/ Lsloti
    \/ \E flags \in {{}, {"FUNCTION"}} : OldScope(flags, MaxTempOps)
    \/ SlotPopScope
    \/ SlotPopFuncdef
    \/ Pushslots
    \/ Return
    \/ Copy
    \/ SlotsLeave

SpecTemps == Init /\ [][NextTemps]_vars

\* C39: dstc_pushslots, dstc_return and dstc_copy leave the busy slots of the
\* allocator of every open scope as they were, whatever the kinds of the slots
\* they read and write; the watermark smax may only grow.
C39_TempsReleased ==
    [][(cpc = "value" /\ cret'.op \in {"pushslots", "return", "copy"}) =>
          /\ Len(comp'.scope) = Len(comp.scope)
          /\ \A n \in 1..Len(comp.scope) :
                /\ BusySlots(comp'.scope[n]) = BusySlots(comp.scope[n])
                /\ comp'.scope[n].smax >= comp.scope[n].smax]_vars

\* A copy into a reference from a constant, with every slot below 256 busy:
\* both temporaries come from the near allocator.
C39_Witness ==
    /\ cpc = "value"
    /\ cret.op = "copy"
    /\ cret.arg.dest = RefSlot
    /\ "CONSTANT" \in cret.arg.from.flags
    /\ comp.result.status = DST_COMPILE_OK
    /\ \E i \in 1..Len(comp.buffer) : comp.buffer[i].op = "DOP_PUT_INDEX"
    /\ Top(comp).smax > 256

\* The instructions a step appended to the buffer.
Emitted(c, d) == SubSeq(d.buffer, Len(c.buffer) + 1, Len(d.buffer))

ReturnOps == {"DOP_RETURN", "DOP_RETURN_NIL", "DOP_TAILCALL"}

\* The instructions that bring a slot into a near local.
ReadOps == {"DOP_LOAD_NIL", "DOP_LOAD_TRUE", "DOP_LOAD_FALSE", "DOP_LOAD_INTEGER",
            "DOP_LOAD_CONSTANT", "DOP_GET_INDEX", "DOP_LOAD_UPVALUE", "DOP_MOVE_NEAR"}

IsCallForm(x) == (x.t = "tuple" /\ Len(x.items) > 0) \/ x.t = "array"

TailStep ==
    /\ cpc = "value"
    /\ cret'.op = "value"
    /\ "TAIL" \in cret'.arg.opts.flags
    /\ comp.result.status = DST_COMPILE_OK
    /\ comp'.result.status = DST_COMPILE_OK

\* C33 as stated: in tail position a call ends in tailcall, yields a slot
\* flagged returned and no return follows; any other form emits exactly one
\* instruction, return-nil for the constant nil and return otherwise.
C33_ReturnOne ==
    [][TailStep =>
          LET new == Emitted(comp, comp')
          IN  /\ "RETURNED" \in cret'.ret.flags
              /\ IsCallForm(cret'.arg.x) =>
                     /\ new[Len(new)].op = "DOP_TAILCALL"
                     /\ \A i \in 1..Len(new) : new[i].op \notin {"DOP_RETURN", "DOP_RETURN_NIL"}
              /\ ~IsCallForm(cret'.arg.x) =>
                     /\ Len(new) = 1
                     /\ new[1].op = IF cret'.arg.x = NilV THEN "DOP_RETURN_NIL" ELSE "DOP_RETURN"]_vars

\* C33 amended: in tail position a call ends in tailcall, yields a slot
\* flagged returned and no return follows; any other form ends in exactly one
\* return instruction, return-nil alone for the constant nil and otherwise
\* return of the near local the slot was read into, after the instructions
\* that read it (none for a near local); the slot comes back flagged returned.
\* Outside tail position no return instruction is emitted.
C33_ReturnLast ==
    [][/\ TailStep =>
          LET new == Emitted(comp, comp')
          IN  /\ "RETURNED" \in cret'.ret.flags
              /\ Len(new) > 0
              /\ \A i \in 1..Len(new) : new[i].op \in ReturnOps <=> i = Len(new)
              /\ IsCallForm(cret'.arg.x) <=> new[Len(new)].op = "DOP_TAILCALL"
              /\ cret'.arg.x = NilV <=> new[Len(new)].op = "DOP_RETURN_NIL"
              /\ cret'.arg.x = NilV => Len(new) = 1
              /\ new[Len(new)].op = "DOP_RETURN" =>
                     /\ \A i \in 1..(Len(new) - 1) : new[i].op \in ReadOps
                     /\ (Len(new) = 1 <=>
                            /\ cret'.ret.flags \cap {"CONSTANT", "REF"} = {}
                            /\ cret'.ret.envindex < 0
                            /\ new[1].args = <<SlotOp(cret'.ret.index)>>)
       /\ (cpc = "value" /\ cret'.op = "value" /\ "TAIL" \notin cret'.arg.opts.flags) =>
              \A i \in 1..Len(Emitted(comp, comp')) :
                  Emitted(comp, comp')[i].op \notin ReturnOps]_vars

\* A string returned in tail position: load-constant, then return.
C33_Witness ==
    /\ cpc = "value"
    /\ cret.op = "value"
    /\ "TAIL" \in cret.arg.opts.flags
    /\ cret.arg.x.t = "string"
    /\ comp.result.status = DST_COMPILE_OK
    /\ Len(comp.buffer) >= 2
    /\ comp.buffer[Len(comp.buffer)].op = "DOP_RETURN"
    /\ comp.buffer[Len(comp.buffer) - 1].op = "DOP_LOAD_CONSTANT"

(***************************************************************************)
(* SpecSymcache: the symbol cache of core/symcache.c.  Symbols are created *)
(* from byte strings and removed when the collector sweeps them.  A bucket *)
(* pointer janet_vm_cache + i is the number i + 1, NullPtr is no bucket;   *)
(* a symbol pointer is a number above JANET_SYMCACHE_DELETED.              *)
(***************************************************************************)
JANET_SYMCACHE_DELETED == 1

\* The byte strings symbols are made from: "aa" and "b@" share their cache
\* index at every capacity, "c" has another one.
SymStrings == {<<97, 97>>, <<98, 64>>, <<99>>}

\* hash = (hash << 5) + hash + c on 32-bit unsigned, in 16-bit halves.
RECURSIVE HashFrom(_, _)
HashFrom(hash, str) ==
    IF str = <<>> THEN hash
    ELSE LET low == hash.lo * 33 + Head(str)
         IN  HashFrom([hi |-> (hash.hi * 33 + low \div 65536) % 65536,
                       lo |-> low % 65536], Tail(str))

janet_string_calchash(str) == HashFrom([hi |-> 0, lo |-> 5381], str)

janet_tablen(n) ==
    LET Smear(k, s) == CHOOSE r \in 0..(2 * k + 1) :
            \A b \in 0..15 : (r \div 2^b) % 2 =
                IF (k \div 2^b) % 2 = 1 \/ ((k \div 2^s) \div 2^b) % 2 = 1 THEN 1 ELSE 0
    IN  Smear(Smear(Smear(Smear(Smear(n, 1), 2), 4), 8), 16) + 1

\* The string object test equals the bytes str of the given hash.
janet_string_equalconst(test, str, hash) ==
    /\ test.hash = hash
    /\ Len(test.bytes) = Len(str)
    /\ test.bytes = str

Slot(v, i) == IF i \in DOMAIN v.cache THEN v.cache[i] ELSE NullPtr

Store(cache, i, x) ==
    [j \in DOMAIN cache \cup {i} |-> IF j = i THEN x ELSE cache[j]]

\* The two loops of janet_symcache_findmem from the k-th slot probed on:
\* the slots index .. capacity-1, then 0 .. index-1.
RECURSIVE janet_symcache_probe(_, _, _, _, _)
janet_symcache_probe(v, str, hash, k, firstEmpty) ==
    IF k = v.capacity
    THEN [bucket |-> firstEmpty, success |-> 0, cache |-> v.cache]
    ELSE LET i == ((hash.lo % v.capacity) + k) % v.capacity
             test == Slot(v, i)
             first == IF firstEmpty = NullPtr THEN i + 1 ELSE firstEmpty
         IN  IF test = NullPtr
             THEN [bucket |-> first, success |-> 0, cache |-> v.cache]
             ELSE IF test = JANET_SYMCACHE_DELETED
             THEN janet_symcache_probe(v, str, hash, k + 1, first)
             ELSE IF janet_string_equalconst(v.mem[test], str, hash)
             THEN IF firstEmpty # NullPtr
                  THEN [bucket |-> firstEmpty, success |-> 1,
                        cache |-> Store(Store(v.cache, firstEmpty - 1, test),
                                        i, JANET_SYMCACHE_DELETED)]
                  ELSE [bucket |-> i + 1, success |-> 1, cache |-> v.cache]
             ELSE janet_symcache_probe(v, str, hash, k + 1, firstEmpty)

janet_symcache_findmem(v, str, hash) == janet_symcache_probe(v, str, hash, 0, NullPtr)

janet_symcache_find(v, x) ==
    janet_symcache_findmem(v, v.mem[x].bytes, v.mem[x].hash)

\* The loop of janet_cache_resize over the old slots still to visit; the
\* NULL and deleted ones are skipped, a problem ends the loop.
RECURSIVE Reinsert(_, _, _)
Reinsert(v, oldCache, todo) ==
    IF todo = {} THEN v
    ELSE LET i == CHOOSE j \in todo : \A l \in todo : j <= l
             x == oldCache[i]
             f == janet_symcache_find(v, x)
         IN  IF f.success = 1 \/ f.bucket = NullPtr THEN v
             ELSE Reinsert([v EXCEPT !.cache = Store(f.cache, f.bucket - 1, x)],
                           oldCache, todo \ {i})

janet_cache_resize(v, newCapacity) ==
    Reinsert([v EXCEPT !.cache = <<>>, !.capacity = newCapacity, !.deleted = 0],
             v.cache,
             {i \in DOMAIN v.cache : i < v.capacity /\ v.cache[i] # JANET_SYMCACHE_DELETED})

\* Storing through a bucket pointer; the code never passes NULL here while
\* the cache keeps a free slot.
janet_symcache_put(v, x, bucket) ==
    LET grow == (v.count + v.deleted) * 2 > v.capacity
        w == IF grow THEN janet_cache_resize(v, janet_tablen(2 * v.count + 1)) ELSE v
        f == IF grow THEN janet_symcache_find(w, x)
             ELSE [bucket |-> bucket, success |-> 0, cache |-> w.cache]
    IN  [w EXCEPT !.count = w.count + 1, !.cache = Store(f.cache, f.bucket - 1, x)]

\* The removal variant that clears the bucket instead of marking it deleted.
janet_symbol_deinit_clear(v, sym) ==
    LET f == janet_symcache_find(v, sym)
    IN  IF f.success = 1
        THEN [v EXCEPT !.count = v.count - 1, !.deleted = v.deleted + 1,
                       !.cache = [j \in DOMAIN f.cache \ {f.bucket - 1} |-> f.cache[j]]]
        ELSE v

janet_symbol_deinit(v, sym) ==
    LET f == janet_symcache_find(v, sym)
    IN  IF f.success = 1
        THEN [v EXCEPT !.count = v.count - 1, !.deleted = v.deleted + 1,
                       !.cache = Store(f.cache, f.bucket - 1, JANET_SYMCACHE_DELETED)]
        ELSE [v EXCEPT !.cache = f.cache]

\* janet_gcalloc: the lowest address above the deleted mark not in use.
janet_gcalloc(v) ==
    CHOOSE p \in 2..(Cardinality(DOMAIN v.mem) + 2) :
        /\ p \notin DOMAIN v.mem
        /\ \A q \in 2..(p - 1) : q \in DOMAIN v.mem

\* janet_symbol: the new VM state and the pointer returned.
janet_symbol(v, str) ==
    LET hash == janet_string_calchash(str)
        f == janet_symcache_findmem(v, str, hash)
        newstr == janet_gcalloc(v)
        withstr == [v EXCEPT !.cache = f.cache,
                             !.mem = [p \in DOMAIN v.mem \cup {newstr} |->
                                         IF p = newstr THEN [hash |-> hash, bytes |-> str]
                                         ELSE v.mem[p]]]
    IN  IF f.success = 1
        THEN [vm |-> [v EXCEPT !.cache = f.cache], ret |-> f.cache[f.bucket - 1]]
        ELSE [vm |-> janet_symcache_put(withstr, newstr, f.bucket), ret |-> newstr]

\* One call of janet_symbol.
SymbolCall(str) ==
    LET r == janet_symbol(vm, str)
    IN  /\ vm' = r.vm
        /\ vmret' = [op |-> "symbol", arg |-> str, ret |-> r.ret]
        /\ UNCHANGED <<parsers, heap, last, tlq, nfed, nins, ncalls, src, out, comp, cpc, cret, threads>>

\* The collector sweeps the symbol sym: janet_symbol_deinit, then the
\* memory is released.
Sweep(sym) ==
    LET w == janet_symbol_deinit(vm, sym)
    IN  /\ sym \in DOMAIN vm.mem
        /\ vm' = [w EXCEPT !.mem = [p \in DOMAIN w.mem \ {sym} |-> w.mem[p]]]
        /\ vmret' = [op |-> "deinit", arg |-> sym, ret |-> NullPtr]
        /\ UNCHANGED <<parsers, heap, last, tlq, nfed, nins, ncalls, src, out, comp, cpc, cret, threads>>

NextSymcache ==
    \/ \E str \in SymStrings : SymbolCall(str)
    \/ \E sym \in 2..(Cardinality(SymStrings) + 2) : Sweep(sym)

SpecSymcache == Init /\ [][NextSymcache]_vars

\* The live entries of the cache: the slots holding a symbol.
LiveSlots(v) == {i \in DOMAIN v.cache : v.cache[i] # JANET_SYMCACHE_DELETED}

LiveSymbols(v) == {v.cache[i] : i \in LiveSlots(v)}

\* C34: symbols are interned.  After every creation and removal the cache
\* holds at most one live entry per byte string, every live entry lies in
\* the table and is a symbol in memory, and the count is the number of live
\* entries; creating a symbol from the bytes of a live symbol returns that
\* object, and the live entries and the count stay as they were.
C34_Interned ==
    [][/\ \A i \in LiveSlots(vm') :
              /\ i < vm'.capacity
              /\ vm'.cache[i] \in DOMAIN vm'.mem
              /\ \A j \in LiveSlots(vm') :
                     vm'.mem[vm'.cache[i]].bytes = vm'.mem[vm'.cache[j]].bytes => i = j
       /\ vm'.count = Cardinality(LiveSlots(vm'))
       /\ LiveSymbols(vm') = DOMAIN vm'.mem
       /\ vmret'.op = "symbol" =>
              /\ vmret'.ret \in LiveSymbols(vm')
              /\ vm'.mem[vmret'.ret].bytes = vmret'.arg
              /\ \A p \in LiveSymbols(vm) :
                     vm.mem[p].bytes = vmret'.arg =>
                         /\ vmret'.ret = p
                         /\ LiveSymbols(vm') = LiveSymbols(vm)
                         /\ vm'.count = vm.count
                         /\ vm'.mem = vm.mem]_vars

\* After a resize to a small table: a symbol was looked up again behind a
\* deleted mark and has taken the mark's place.
C34_Witness ==
    /\ vm.capacity < 1024
    /\ vmret.op = "symbol"
    /\ vm.count >= 2
    /\ \E i \in DOMAIN vm.cache :
           /\ vm.cache[i] = JANET_SYMCACHE_DELETED
           /\ Slot(vm, (i + vm.capacity - 1) % vm.capacity) = vmret.ret
           /\ (janet_string_calchash(vmret.arg).lo % vm.capacity) # i

(***************************************************************************)
(* SpecThreads: a parent thread holding the handle of a child thread, and  *)
(* the child receiving from its mailbox (core/thread.c).  Every critical   *)
(* section runs under the mailbox lock and is one step; waiting on the     *)
(* condition variable releases the lock, and a woken waiter takes it again *)
(* before it looks at the mailbox.                                         *)
(***************************************************************************)
MaxThreadOps == 4

\* Messages: one that unmarshals, one that fails to unmarshal in the
\* receiver, and a value that fails to marshal in the sender.
Messages == {"ok", "bad", "unsendable"}

\* The timeouts of thread/receive: none (the default -1), zero, positive.
Timeouts == {-1, 0, 1}

\* janet_mailbox_ref_with_lock: the count changes, and the mailbox is
\* destroyed when no reference is left.
janet_mailbox_ref_with_lock(mailbox, delta) ==
    LET n == mailbox.refCount + delta
    IN  [mailbox EXCEPT !.refCount = n, !.destroyed = (n <= 0)]

janet_mailbox_ref(mailbox, delta) == janet_mailbox_ref_with_lock(mailbox, delta)

\* janet_close_thread on the parent's handle.
janet_close_thread(t) ==
    IF t.handle # NullPtr
    THEN [t EXCEPT !.mailbox = janet_mailbox_ref(t.mailbox, -1), !.handle = NullPtr]
    ELSE t

\* janet_thread_send up to its unlock: the status, and whether the
\* condition is signalled afterwards.
janet_thread_send(t, msg) ==
    IF t.handle = NullPtr THEN [t EXCEPT !.parent = [pc |-> "idle", op |-> "send", ret |-> 2]]
    ELSE IF t.mailbox.closed # 0
    THEN [t EXCEPT !.mailbox = janet_mailbox_ref_with_lock(t.mailbox, -1),
                   !.handle = NullPtr,
                   !.parent = [pc |-> "idle", op |-> "send", ret |-> 2]]
    ELSE LET oldcount == Len(t.mailbox.buf)
             ret == IF msg = "unsendable" THEN 1 ELSE 0
         IN  [t EXCEPT !.mailbox.buf = IF ret = 0 THEN Append(@, msg) ELSE @,
                       !.parent = [pc |-> IF oldcount = 0 /\ ret = 0 THEN "signal" ELSE "idle",
                                   op |-> "send", ret |-> ret]]

\* One pass of the loop of janet_thread_receive with the lock held.
janet_thread_receive(t) ==
    LET timeout == t.child.timeout
        nowait == timeout = 0
        bad == t.mailbox.buf # <<>> /\ Head(t.mailbox.buf) = "bad"
    IN  IF t.mailbox.buf # <<>> /\ ~bad
        THEN [t EXCEPT !.mailbox.buf = Tail(@),
                       !.child = [pc |-> "idle", timeout |-> timeout, ret |-> 0]]
        ELSE LET u == IF bad THEN [t EXCEPT !.mailbox.buf = <<>>] ELSE t
             IN  IF nowait \/ u.mailbox.refCount <= 1
                 THEN [u EXCEPT !.child = [pc |-> "idle", timeout |-> timeout, ret |-> 1]]
                 ELSE [u EXCEPT !.child.pc = "waiting"]

\* janet_threads_deinit in the child.
janet_threads_deinit(t) ==
    [t EXCEPT !.mailbox = janet_mailbox_ref_with_lock([t.mailbox EXCEPT !.closed = 1], -1),
              !.child.pc = "exited"]

ThreadStep(t) ==
    /\ threads' = t
    /\ UNCHANGED <<parsers, heap, last, tlq, nfed, nins, ncalls, src, out, comp, cpc, cret,
                   vm, vmret>>

Counted35(t) == [t EXCEPT !.nops = t.nops + 1]

\* The child calls thread/receive.
Receive(timeout) ==
    /\ threads.child.pc = "idle"
    /\ threads.nops < MaxThreadOps
    /\ ThreadStep(Counted35([threads EXCEPT
           !.child = [pc |-> "locking", timeout |-> timeout, ret |-> 0]]))

\* The child holds the lock: on entry, or after it was woken.
ReceiveLocked ==
    /\ threads.child.pc \in {"locking", "woken"}
    /\ ThreadStep(janet_thread_receive(threads))

\* pthread_cond_timedwait runs out of time.
Timeout ==
    /\ threads.child.pc = "waiting"
    /\ threads.child.timeout > 0
    /\ ThreadStep([threads EXCEPT !.child.pc = "idle", !.child.ret = 1])

\* pthread_cond_wait may return without a signal.
SpuriousWake ==
    /\ threads.child.pc = "waiting"
    /\ ThreadStep([threads EXCEPT !.child.pc = "woken"])

\* The child's function ends: janet_deinit.
ChildExit ==
    /\ threads.child.pc = "idle"
    /\ ThreadStep(janet_threads_deinit(threads))

\* The parent calls thread/send.
Send(msg) ==
    /\ threads.parent.pc = "idle"
    /\ threads.nops < MaxThreadOps
    /\ ThreadStep(Counted35(janet_thread_send(threads, msg)))

\* The pthread_cond_signal after the unlock of janet_thread_send.
SendSignal ==
    /\ threads.parent.pc = "signal"
    /\ ThreadStep([threads EXCEPT
           !.parent.pc = "idle",
           !.child.pc = IF @ = "waiting" THEN "woken" ELSE @])

\* The parent calls thread/close, or the collector frees the handle.
Close ==
    /\ threads.parent.pc = "idle"
    /\ threads.nops < MaxThreadOps
    /\ ThreadStep(Counted35([janet_close_thread(threads) EXCEPT
           !.parent = [pc |-> "idle", op |-> "close", ret |-> 0]]))

NextThreads ==
    \/ \E timeout \in Timeouts : Receive(timeout)
    \/ ReceiveLocked
    \/ Timeout
    \/ SpuriousWake
    \/ ChildExit
    \/ \E msg \in Messages : Send(msg)
    \/ SendSignal
    \/ Close

SpecThreads == Init /\ [][NextThreads]_vars

\* The steps the threads take by themselves: a thread that can take the
\* lock takes it, a timed wait ends, a pending signal is sent.  A wait
\* returning without a signal is allowed and never promised.
SpecThreadsFair ==
    /\ SpecThreads
    /\ WF_vars(ReceiveLocked)
    /\ WF_vars(Timeout)
    /\ WF_vars(SendSignal)

\* The child is blocked in a receive without timeout, and the parent's
\* handle, the last other reference to the mailbox, has been closed.
BlockedAndClosed ==
    /\ threads.child.pc = "waiting"
    /\ threads.child.timeout < 0
    /\ threads.handle = NullPtr
    /\ threads.mailbox.refCount = 1

\* A call of thread/close on a handle that is already closed.
ClosedAgain ==
    /\ threads.handle = NullPtr
    /\ threads'.nops # threads.nops
    /\ threads'.parent.op = "close"
    /\ threads'.child = threads.child

\* C35: closing the handle unblocks the thread.  A receive without timeout
\* that is blocked when the last other reference is closed returns in the
\* end; closing an already closed handle leaves the reference count alone.
C35_CloseUnblocks ==
    /\ [][ClosedAgain => threads'.mailbox = threads.mailbox]_vars
    /\ BlockedAndClosed ~> threads.child.pc # "waiting"

\* The idempotence alone: once the handle is closed, no later call of the
\* parent changes the reference count.
CloseIdempotent == [][ClosedAgain => threads' = [threads EXCEPT !.nops = @ + 1, !.parent.op = "close", !.parent.ret = 0]]_vars

\* The parent closes a closed handle a second time.
ClosedTwice ==
    /\ threads.handle = NullPtr
    /\ threads.parent.op = "close"
    /\ threads.nops >= 2
    /\ threads.mailbox.refCount = 1
    /\ ~threads.mailbox.destroyed

(***************************************************************************)
(* The argument stack against pending and against the frames' counts, on   *)
(* Spec.                                                                   *)
(***************************************************************************)

\* C36: pending never exceeds the argument count, the two are equal whenever
\* only the root frame is open, and the first `pending` values of the
\* argument stack are the top-level values closed and not yet produced or
\* flushed, in closing order.
C36_RootPending ==
    /\ P1.pending <= argcount(P1)
    /\ statecount(P1) = 1 => argcount(P1) = P1.pending
    /\ SubSeq(P1.args, 1, P1.pending) = tlq[1]

\* Only root is open, one value was produced and two are left.
C36_Witness ==
    /\ last.op = "produce"
    /\ statecount(P1) = 1
    /\ P1.pending = 2
    /\ argcount(P1) = 2
    /\ tlq[1] = P1.args

\* C37: the argument counts of the open container frames, root included,
\* add up to the number of values on the argument stack.
C37_ArgnSum == OpenArgs(P1.states, 1) = argcount(P1)

\* What holds instead: the frames above root account for the values that
\* are not pending, and root's count is at least the pending ones.
ArgnAboveRoot ==
    /\ OpenArgs(P1.states, 2) = argcount(P1) - P1.pending
    /\ P1.states[1].argn >= P1.pending

(***************************************************************************)
(* SpecLex: tokens that fail when they end, and eof.                       *)
(***************************************************************************)
LexAlphabet == {Ch("c1"), Ch("a"), 255, Ch("SP"), Ch("LPAREN"), Ch("COLON")}

NextLex ==
    \/ Uncounted(Feed(1, LexAlphabet, MaxBytes))
    \/ Uncounted(Quiet(Eof(1)))
    \/ Uncounted(Quiet(Error(1)))

SpecLex == Init /\ [][NextLex]_vars

LexicalErrors ==
    {"symbol literal cannot start with a digit", "invalid utf-8 in symbol",
     "invalid utf-8 in keyword"}

\* eof is called on a live parser and the LF it feeds makes the pending
\* token fail.
EofFailsToken ==
    /\ last'.op = "eof"
    /\ janet_parser_checkdead(P1) = ""
    /\ TopState(P1).consumer = "tokenchar"
    /\ janet_parser_consume(P1, Ch("LF")).error \in LexicalErrors

\* C38: when the LF fed by eof makes the pending token fail with a lexical
\* error, the error after eof is that lexical error.
C38_LexicalError ==
    [][EofFailsToken => P1'.error = janet_parser_consume(P1, Ch("LF")).error]_vars

\* C38 as the code has it: the failed token's frame is still open after the
\* LF, so eof replaces the lexical error by "unexpected end of source", and
\* error() then returns that message.
C38_EofOverwrites ==
    [][/\ EofFailsToken =>
              /\ statecount(P1') > 1
              /\ TopState(P1').consumer = "tokenchar"
              /\ P1'.error = MsgEof
              /\ P1'.flag # 0
       /\ (last'.op = "error" /\ last.op = "eof" /\ last.panic = "" /\ P1.error # NoError) =>
              last'.ret = CString(MsgEof)]_vars

\* After eof on a symbol of invalid UTF-8: the token frame is open and the
\* error is the end-of-source one.
C38_Witness ==
    /\ last.op = "eof"
    /\ P1.error = MsgEof
    /\ TopState(P1).consumer = "tokenchar"
    /\ janet_parser_consume([P1 EXCEPT !.error = NoError, !.flag = 0], Ch("LF")).error
           = "invalid utf-8 in symbol"

====
